---- MODULE Spec2Model ----
(***************************************************************************)
(* Logic Bot: the round state machine kept in a thread's control message,  *)
(* and the per-channel scoreboard kept in pinned messages.                  *)
(*                                                                         *)
(* The chat platform is the message store: a thread is the list returned   *)
(* by conversations.replies (the root message first), a scoreboard is the  *)
(* pair of pinned messages (display, data) of a channel.  Platform calls   *)
(* succeed in this model.  Times are whole seconds since the epoch and the *)
(* process runs in UTC.                                                     *)
(***************************************************************************)
EXTENDS Integers, Sequences, FiniteSets, TLC

(* ------------------------------ bounds -------------------------------- *)
MaxThreads == 1   \* threads of the channels
MaxPrompts == 2   \* confirmation prompts sent
MaxPosts == 1     \* replies and question edits of users per thread
MaxScore == 1     \* scores and question counts driven through the scoreboard API
MaxInFlight == 2  \* handlers running at the same time

(* ---------------------------- identities ------------------------------ *)
Bot == "UBOT"
Users == {"UA", "UB"}
ADMIN_USER_IDS == {"UA"}
LOGIC_CHANNEL_ID_MAIN == "CMAIN"
LOGIC_CHANNEL_ID_TEST == "CTEST"
ALLOWED_CHANNEL_IDS == {LOGIC_CHANNEL_ID_MAIN, LOGIC_CHANNEL_ID_TEST}

OPEN == "OPEN"
SOLVED == "SOLVED"
CLOSED == "CLOSED"
RoundStatus == {OPEN, SOLVED, CLOSED}

Null == [k |-> "null"]
NoMsg == [k |-> "nomsg"]

(* Platform clock: the last second of 2024, the first second of 2025.     *)
ClockTimes == <<1735689599, 1735689600>>

(* ------------------------------- text --------------------------------- *)
(* A text is a sequence of tokens; " " is white space.                     *)
RECURSIVE TrimStart(_)
TrimStart(t) == IF t # <<>> /\ Head(t) = " " THEN TrimStart(Tail(t)) ELSE t

RECURSIVE TrimEnd(_)
TrimEnd(t) ==
  IF t # <<>> /\ t[Len(t)] = " " THEN TrimEnd(SubSeq(t, 1, Len(t) - 1)) ELSE t

Trim(t) == TrimEnd(TrimStart(t))

NoText == <<"(no text)">>

QuestionInputs == {<<" ", "q1">>, <<" ">>}
EditInputs == {<<"q2", " ">>, <<>>}
GuessInputs == {<<"guess:", " ", "a1">>, <<>>}
ModalAnswerInputs == {<<"a2", " ">>, <<" ">>}

(* ------------------------------ years --------------------------------- *)
IsLeap(y) == (y % 4 = 0 /\ y % 100 # 0) \/ y % 400 = 0
DaysIn(y) == IF IsLeap(y) THEN 366 ELSE 365

RECURSIVE YearFrom(_, _)
YearFrom(y, d) == IF d < DaysIn(y) THEN y ELSE YearFrom(y + 1, d - DaysIn(y))

(* new Date(parseFloat(ts) * 1000).getFullYear() *)
getYearFromTimestamp(ts) == YearFrom(1970, ts.sec \div 86400)

(* new Date().getFullYear() at platform time t *)
CurrentYear(t) == YearFrom(1970, t \div 86400)

Years == {CurrentYear(ClockTimes[i]) : i \in DOMAIN ClockTimes}

(* -------------------------- plain objects ----------------------------- *)
(* A JavaScript object is a function on its own keys.                      *)
EmptyObj == <<>>
Has(o, key) == key \in DOMAIN o
Put(o, key, v) == [x \in DOMAIN o \cup {key} |-> IF x = key THEN v ELSE o[x]]
Del(o, key) == [x \in DOMAIN o \ {key} |-> o[x]]
OrZero(o, key) == IF Has(o, key) THEN o[key] ELSE 0
Spread(o, upd) ==
  [x \in DOMAIN o \cup DOMAIN upd |-> IF x \in DOMAIN upd THEN upd[x] ELSE o[x]]

(* --------------------------- state codec ------------------------------ *)
(* Buffer.from(threadTs).toString('base64') and back *)
encodeThreadTs(threadTs) == [k |-> "base64", of |-> threadTs]
decodeThreadTs(encoded) == encoded.of

(* Buffer.from(s).toString('base64'), and Buffer.from(text, 'base64') back: *)
(* a text that is no base64 of a string decodes to bytes of no meaning     *)
Base64(s) == [k |-> "base64", of |-> s]
FromBase64(text) == IF text.k = "base64" THEN text.of ELSE [k |-> "bytes"]

(* the keys of a RoundState in the order the handlers write them *)
RoundKeys == <<"version", "op", "status", "threadTs", "channelId", "question", "answer">>

(* the keys of a ScoreboardData in the order the code writes them *)
DataKeys == <<"scoresByYear", "questionsByYear", "lastUpdated">>

(* fault: the optional answer is left out of the text *)
JSONstringifyWithoutAnswer(o) ==
  LET keys == SelectSeq(RoundKeys, LAMBDA key : Has(o, key) /\ key # "answer") IN
  [k |-> "json", members |-> [i \in DOMAIN keys |-> <<keys[i], o[keys[i]]>>]]

(* JSON.stringify: the members of the object's own keys, in key order *)
JSONstringify(o) ==
  LET keys == SelectSeq(RoundKeys \o DataKeys, LAMBDA key : Has(o, key)) IN
  [k |-> "json", members |-> [i \in DOMAIN keys |-> <<keys[i], o[keys[i]]>>]]

(* JSON.parse: the object of the members, a later member of a key winning; *)
(* any text that is not JSON throws                                         *)
JSONparse(s) ==
  IF Has(s, "k") /\ s.k = "json"
  THEN LET ms == s.members
           lastOf(key) == CHOOSE i \in DOMAIN ms :
                            /\ ms[i][1] = key
                            /\ \A j \in i + 1 .. Len(ms) : ms[j][1] # key
       IN [threw |-> FALSE,
           value |-> [key \in {ms[i][1] : i \in DOMAIN ms} |-> ms[lastOf(key)][2]]]
  ELSE [threw |-> TRUE]

encodeRoundState(state) == Base64(JSONstringify(state))

(* the parsed value, or null where JSON.parse threw *)
Caught(parsed) == IF parsed.threw THEN Null ELSE parsed.value

decodeRoundState(encoded) == Caught(JSONparse(FromBase64(encoded)))

formatRoundState(state) == encodeRoundState(state)

(* A legacy line is a text of tokens [t, v]: the head "[logic_round v<v>]", *)
(* white space, "op=<v>", "status=<v>", "threadTs=<v>", "channelId=<v>",    *)
(* "answer=<v>", "]" and other text that is no word character.             *)
RECURSIVE SkipWs(_, _)
SkipWs(toks, i) ==
  IF i <= Len(toks) /\ toks[i].t = "ws" THEN SkipWs(toks, i + 1) ELSE i

(* the field at position j, reached over at least one white space from i, or 0 *)
FieldAt(toks, i, j, field) ==
  IF j > i + 1 /\ j <= Len(toks) /\ toks[j].t = field THEN j ELSE 0

(* \s+<field>=: the position of the field after at least one white space, or 0 *)
NextField(toks, i, field) ==
  IF i = 0 THEN 0 ELSE FieldAt(toks, i, SkipWs(toks, i + 1), field)

(* the fields the pattern requires after the head, in its order *)
RequiredFields == <<"op", "status", "threadTs", "channelId">>

(* the positions of the head and of the required fields found so far, *)
(* extended by the fields still to come; <<>> where one is missing    *)
RECURSIVE Fields(_, _, _)
Fields(toks, found, names) ==
  IF names = <<>> THEN found
  ELSE IF NextField(toks, found[Len(found)], names[1]) = 0 THEN <<>>
  ELSE Fields(toks, Append(found, NextField(toks, found[Len(found)], names[1])),
              Tail(names))

(* [^\]]+ : the text from the answer on, up to a "]" or the end *)
RECURSIVE AnswerEnd(_, _)
AnswerEnd(toks, i) ==
  IF i < Len(toks) /\ toks[i + 1].t # "rbracket" THEN AnswerEnd(toks, i + 1) ELSE i

(* the groups of a match: the required fields at their positions and the *)
(* optional answer (0 where it is absent)                                *)
Groups(toks, at, answer) ==
  [found |-> TRUE, from |-> at[1], head |-> at[1], op |-> at[2], status |-> at[3],
   threadTs |-> at[4], channelId |-> at[5], answer |-> answer,
   to |-> IF answer = 0 THEN at[5] ELSE AnswerEnd(toks, answer)]

MatchFields(toks, at) ==
  IF at = <<>> THEN [found |-> FALSE]
  ELSE Groups(toks, at, NextField(toks, at[5], "answer"))

(* the pattern of the legacy line tried at position i *)
MatchAt(toks, i) ==
  IF toks[i].t = "head" THEN MatchFields(toks, Fields(toks, <<i>>, RequiredFields))
  ELSE [found |-> FALSE]

Leftmost(matches) ==
  IF matches = {} THEN [found |-> FALSE]
  ELSE CHOOSE m \in matches : \A n \in matches : m.from <= n.from

(* text.match(pattern): the leftmost position where the pattern matches *)
Match(toks) == Leftmost({m \in {MatchAt(toks, i) : i \in DOMAIN toks} : m.found})

(* the answer group: the tokens from "answer=" up to the end of the match *)
AnswerGroup(toks, from, to) == [n \in 1 .. to - from + 1 |-> toks[from + n - 1].v]

(* the answer is set only where the optional group matched *)
WithAnswer(state, toks, match) ==
  IF match.answer # 0
  THEN Spread(state, [answer |-> AnswerGroup(toks, match.answer, match.to)])
  ELSE state

(* the round of the match groups; null without a match or with a status *)
(* that is none of OPEN, SOLVED, CLOSED                                 *)
LegacyState(toks, match) ==
  IF ~match.found THEN Null
  ELSE IF toks[match.status].v \notin RoundStatus THEN Null
  ELSE WithAnswer([version |-> toks[match.head].v, op |-> toks[match.op].v,
                   status |-> toks[match.status].v,
                   threadTs |-> toks[match.threadTs].v,
                   channelId |-> toks[match.channelId].v], toks, match)

parseLegacy(text) ==
  IF text.k # "line" THEN Null ELSE LegacyState(text.toks, Match(text.toks))

OrLegacy(decoded, text) == IF decoded # Null THEN decoded ELSE parseLegacy(text)

(* the opaque token first, then the legacy line *)
parseRoundState(text) == OrLegacy(decodeRoundState(text), text)

(* ---------------------------- round store ----------------------------- *)
(* conversations.replies: the thread of a channel anchored at threadTs *)
ThreadAt(ths, channelId, threadTs) ==
  {i \in DOMAIN ths : ths[i].channelId = channelId /\ ths[i].threadTs = threadTs}

Smallest(S) == CHOOSE i \in S : \A j \in S : i <= j

(* fault: the author of the message is not looked at *)
findRoundControlMessageAnyAuthor(ths, channelId, threadTs) ==
  LET at == ThreadAt(ths, channelId, threadTs) IN
  IF at = {} THEN Null
  ELSE LET msgs == ths[Smallest(at)].msgs
           hits == {m \in DOMAIN msgs : parseRoundState(msgs[m].text) # Null}
       IN IF hits = {} THEN Null
          ELSE [ts |-> Smallest(hits),
                state |-> parseRoundState(msgs[Smallest(hits)].text)]

(* the first reply of the bot whose text parses as a round *)
findRoundControlMessage(ths, channelId, threadTs) ==
  LET at == ThreadAt(ths, channelId, threadTs) IN
  IF at = {} THEN Null
  ELSE LET msgs == ths[Smallest(at)].msgs
           hits == {m \in DOMAIN msgs :
                      msgs[m].user = Bot /\ parseRoundState(msgs[m].text) # Null}
       IN IF hits = {} THEN Null
          ELSE [ts |-> Smallest(hits),
                state |-> parseRoundState(msgs[Smallest(hits)].text)]

(* chat.update(channel, ts, text) on a reply of the thread *)
ChatUpdate(ths, channelId, threadTs, ts, text) ==
  LET at == ThreadAt(ths, channelId, threadTs) IN
  IF at = {} THEN ths
  ELSE [ths EXCEPT ![Smallest(at)].msgs[ts].text = text]

(* chat.postMessage(channel, thread_ts, text) by the bot *)
ChatPostReply(ths, channelId, threadTs, text) ==
  LET at == ThreadAt(ths, channelId, threadTs) IN
  IF at = {} THEN ths
  ELSE [ths EXCEPT ![Smallest(at)].msgs = Append(@, [user |-> Bot, text |-> text])]

(* the stored question, or the one parsed from the thread root *)
getQuestionText(ths, channelId, threadTs, roundState) ==
  IF Has(roundState, "question") /\ roundState.question # <<>>
  THEN roundState.question
  ELSE LET at == ThreadAt(ths, channelId, threadTs) IN
       IF at = {} THEN <<"(unknown question)">>
       ELSE ths[Smallest(at)].msgs[1].text.question

InstructionText(state, solverId) ==
  IF state.status = SOLVED
  THEN [k |-> "Round", status |-> SOLVED, op |-> state.op, solvedBy |-> solverId]
  ELSE IF state.status = CLOSED
  THEN [k |-> "Round", status |-> CLOSED, op |-> state.op, solvedBy |-> <<>>]
  ELSE [k |-> "Round", status |-> OPEN, op |-> state.op, solvedBy |-> <<>>]

(* fault: the instruction message is left as it is *)
findAndUpdateInstructionMessageSkipped(ths, channelId, threadTs, state, solverId) == ths

(* the first reply of the bot that starts with "Round" is rewritten *)
findAndUpdateInstructionMessage(ths, channelId, threadTs, state, solverId) ==
  LET at == ThreadAt(ths, channelId, threadTs) IN
  IF at = {} THEN ths
  ELSE LET msgs == ths[Smallest(at)].msgs
           hits == {m \in DOMAIN msgs : msgs[m].user = Bot /\ msgs[m].text.k = "Round"}
       IN IF hits = {} THEN ths
          ELSE ChatUpdate(ths, channelId, threadTs, Smallest(hits),
                          InstructionText(state, solverId))

RootOf(ths, channelId, threadTs) == ths[Smallest(ThreadAt(ths, channelId, threadTs))].msgs[1]

(* the root keeps its text and gets the single "View answer" button *)
updateRootMessageButton(ths, channelId, threadTs, answer) ==
  IF ThreadAt(ths, channelId, threadTs) = {} THEN ths
  ELSE ChatUpdate(ths, channelId, threadTs, 1,
         [RootOf(ths, channelId, threadTs).text EXCEPT !.buttons = {"view_answer"}])

(* the root gets the closed marker and loses its buttons *)
updateRootMessageClosed(ths, channelId, threadTs, op) ==
  IF ThreadAt(ths, channelId, threadTs) = {} THEN ths
  ELSE ChatUpdate(ths, channelId, threadTs, 1,
         [RootOf(ths, channelId, threadTs).text EXCEPT !.buttons = {}, !.closed = TRUE])

(* ---------------------------- scoreboard ------------------------------ *)
EmptyScoreboardData(t) ==
  [scoresByYear |-> EmptyObj, questionsByYear |-> EmptyObj, lastUpdated |-> t]

NoScoreboard == [display |-> NoMsg, data |-> NoMsg]

formatScoreboardBlocks(data) == [k |-> "blocks", header |-> "Scoreboard", of |-> data]

(* the pinned display message, created from empty data when there is none *)
getOrCreateScoreboard(pin, t) ==
  IF pin.display # NoMsg THEN pin
  ELSE [pin EXCEPT !.display = formatScoreboardBlocks(EmptyScoreboardData(t))]

(* encryptData: "<iv>:<cipher>", which the key of the bot decrypts *)
encryptData(data) == [k |-> "enc", of |-> data]

(* decryptData: throws on a payload that is not "<iv>:<cipher>" of the key *)
decryptData(encryptedData) ==
  IF encryptedData.k = "enc" THEN [threw |-> FALSE, value |-> encryptedData.of]
  ELSE [threw |-> TRUE]

(* codeBlockMatch[1].includes(':') *)
HasColon(block) == block.k = "enc" \/ (block.k = "noise" /\ block.colon)

(* text.match(/```\n([\s\S]*?)\n```/) and text.match(/```json\n([\s\S]*?)\n```/) *)
CodeBlock(text) == IF Has(text, "block") THEN text.block ELSE Null
JsonBlock(text) == IF Has(text, "json") THEN text.json ELSE Null

Miss == [done |-> FALSE]

(* return JSON.parse(...), or the catch *)
Returned(parsed) == IF parsed.threw THEN Miss ELSE [done |-> TRUE, value |-> parsed.value]

Decrypted(decrypted) ==
  IF decrypted.threw THEN Miss ELSE Returned(JSONparse(decrypted.value))

TryEncrypted(block) ==
  IF block # Null /\ HasColon(block) THEN Decrypted(decryptData(block)) ELSE Miss

TryLegacy(json) == IF json # Null THEN Returned(JSONparse(json)) ELSE Miss

OrElse(first, second) == IF first.done THEN first ELSE second

(* fault: the old JSON block is tried before the encrypted one *)
DecodeMessageLegacyFirst(text) ==
  OrElse(TryLegacy(JsonBlock(text)), TryEncrypted(CodeBlock(text)))

(* one pinned message: the encrypted block first, then the old JSON block *)
DecodeMessage(text) == OrElse(TryEncrypted(CodeBlock(text)), TryLegacy(JsonBlock(text)))

IsBotMessage(item) == Has(item, "message") /\ item.message.user = Bot

(* for (const item of pins.items): the first message of the bot that decodes *)
RECURSIVE FirstData(_, _)
FirstData(items, i) ==
  IF i > Len(items) THEN Miss
  ELSE OrElse(IF IsBotMessage(items[i]) THEN DecodeMessage(items[i].message.text) ELSE Miss,
              FirstData(items, i + 1))

OrEmpty(found, t) == IF found.done THEN found.value ELSE EmptyScoreboardData(t)

(* pins is what pins.list answered: it threw, or it gave the pinned items; *)
(* the catch turns every failure into empty data                           *)
getScoreboardData(pins, t) ==
  IF pins.threw THEN EmptyScoreboardData(t) ELSE OrEmpty(FirstData(pins.items, 1), t)

Pinned(text) == [message |-> [user |-> Bot, text |-> text]]

(* pins.list of a channel whose pinned messages are the display message *)
(* and the data message, where they exist                               *)
PinsList(pin) ==
  [threw |-> FALSE,
   items |-> (IF pin.display = NoMsg THEN <<>> ELSE <<Pinned(pin.display)>>)
               \o (IF pin.data = NoMsg THEN <<>> ELSE <<Pinned(pin.data)>>)]

DataText(data) == [k |-> "Scoreboard Data", block |-> encryptData(JSONstringify(data))]

storeScoreboardData(pin, data) == [pin EXCEPT !.data = DataText(data)]

(* read, mutate, stamp, redraw the display, store the data; a mutator that *)
(* read, mutate, stamp, redraw the display, store the data; a mutator that *)
(* throws aborts after the display message was located or created          *)
StoreUpdated(located, data, t) ==
  LET updatedData == [data EXCEPT !.lastUpdated = t] IN
  storeScoreboardData([located EXCEPT !.display = formatScoreboardBlocks(updatedData)],
                      updatedData)

(* the data updateScoreboard reads and hands to its update function *)
currentData(pin, t) == getScoreboardData(PinsList(getOrCreateScoreboard(pin, t)), t)

(* updatedData is the update function's result on currentData(pin, t) *)
updateScoreboard(pin, updatedData, t) ==
  LET located == getOrCreateScoreboard(pin, t)
  IN IF updatedData.threw THEN [threw |-> TRUE, pin |-> located]
     ELSE [threw |-> FALSE, pin |-> StoreUpdated(located, updatedData.data, t)]

WithYear(byYear, year) == IF Has(byYear, year) THEN byYear ELSE Put(byYear, year, EmptyObj)

(* fault: the negative result is stored instead of rejected *)
addPointsFnUnchecked(data, userId, points, year) ==
  LET byYear == WithYear(data.scoresByYear, year)
      newScore == OrZero(byYear[year], userId) + points
  IN [threw |-> FALSE,
      data |-> [data EXCEPT !.scoresByYear =
                  Put(byYear, year, Put(byYear[year], userId, newScore))]]

addPointsFn(data, userId, points, year) ==
  LET byYear == WithYear(data.scoresByYear, year)
      newScore == OrZero(byYear[year], userId) + points
  IN IF newScore < 0 THEN [threw |-> TRUE, data |-> data]
     ELSE [threw |-> FALSE,
           data |-> [data EXCEPT !.scoresByYear =
                       Put(byYear, year, Put(byYear[year], userId, newScore))]]

addPoints(pin, userId, points, year, t) ==
  updateScoreboard(pin, addPointsFn(currentData(pin, t), userId, points, year), t)

(* fault: a start counts two questions *)
addQuestionFnTwice(data, userId, year) ==
  LET byYear == WithYear(data.questionsByYear, year) IN
  [threw |-> FALSE,
   data |-> [data EXCEPT !.questionsByYear =
               Put(byYear, year, Put(byYear[year], userId, OrZero(byYear[year], userId) + 2))]]

addQuestionFn(data, userId, year) ==
  LET byYear == WithYear(data.questionsByYear, year) IN
  [threw |-> FALSE,
   data |-> [data EXCEPT !.questionsByYear =
               Put(byYear, year, Put(byYear[year], userId, OrZero(byYear[year], userId) + 1))]]

addQuestion(pin, userId, year, t) ==
  updateScoreboard(pin, addQuestionFn(currentData(pin, t), userId, year), t)

Max0(n) == IF n < 0 THEN 0 ELSE n

(* fault: a count that reaches 0 is stored as 0 *)
removeQuestionFnKeepsZero(data, userId, year) ==
  LET byYear == WithYear(data.questionsByYear, year)
      newCount == Max0(OrZero(byYear[year], userId) - 1)
  IN [threw |-> FALSE,
      data |-> [data EXCEPT !.questionsByYear =
                  Put(byYear, year, Put(byYear[year], userId, newCount))]]

removeQuestionFn(data, userId, year) ==
  LET byYear == WithYear(data.questionsByYear, year)
      newCount == Max0(OrZero(byYear[year], userId) - 1)
  IN [threw |-> FALSE,
      data |-> [data EXCEPT !.questionsByYear =
                  IF newCount > 0
                  THEN Put(byYear, year, Put(byYear[year], userId, newCount))
                  ELSE Put(byYear, year, Del(byYear[year], userId))]]

removeQuestion(pin, userId, year, t) ==
  updateScoreboard(pin, removeQuestionFn(currentData(pin, t), userId, year), t)

(* fault: the points are added to the score that is there *)
setScoreFnAdded(data, userId, points, year) ==
  LET byYear == WithYear(data.scoresByYear, year) IN
  [threw |-> FALSE,
   data |-> [data EXCEPT !.scoresByYear =
               Put(byYear, year, Put(byYear[year], userId, OrZero(byYear[year], userId) + points))]]

(* /logic setscore: the mutator of the command *)
setScoreFn(data, userId, points, year) ==
  LET byYear == WithYear(data.scoresByYear, year) IN
  [threw |-> FALSE,
   data |-> [data EXCEPT !.scoresByYear = Put(byYear, year, Put(byYear[year], userId, points))]]

(* ------------------------------ state --------------------------------- *)
VARIABLES
  now,         \* index into ClockTimes: the platform's clock
  threads,     \* threads[i] = [channelId, threadTs, msgs]; msgs[1] is the root
  scoreboard,  \* channel -> [display, data]: the two pinned messages
  prompts,     \* the confirmation DMs sent to OPs; the index is dmMessageTs
  modals,      \* the open edit-question forms
  outbox,      \* what the handlers sent besides thread replies, until delivered
  procs,       \* the handlers in flight, each between two of its awaits
  call,        \* a function applied to an input: [pc, round, text, parsed, pins, data]
  pinned,      \* the display messages pinned in the main channel, while
               \* getOrCreateScoreboard runs call by call
  scoreboardMessageCache, \* channel -> ts of the display message, kept by the process
  BOT_USER_ID  \* the identity of the bot as the process has cached it, or null

vars ==
  <<now, threads, scoreboard, prompts, modals, outbox, procs, call, pinned,
    scoreboardMessageCache, BOT_USER_ID>>

(* no pin is followed one by one, no display message is cached, the *)
(* identity of the bot is resolved                                  *)
NoPins == pinned = {} /\ scoreboardMessageCache = EmptyObj /\ BOT_USER_ID = Bot

Time == ClockTimes[now]

NoCall ==
  [pc |-> "none", round |-> Null, text |-> Null, parsed |-> Null, pins |-> Null, data |-> Null]

Init ==
  /\ now = 1
  /\ threads = <<>>
  /\ scoreboard = [c \in ALLOWED_CHANNEL_IDS |-> NoScoreboard]
  /\ prompts = <<>>
  /\ modals = {}
  /\ outbox = {}
  /\ procs = <<>>
  /\ call = NoCall
  /\ NoPins

Ephemeral(channelId, userId, text) ==
  [type |-> "ephemeral", channel |-> channelId, to |-> userId, text |-> text]
Respond(userId, text) == [type |-> "respond", to |-> userId, text |-> text]
Dm(userId, text) == [type |-> "dm", to |-> userId, text |-> text]
DmEdit(p, text) == [type |-> "dm_update", prompt |-> p, text |-> text]
ViewUpdate(userId, text) == [type |-> "view", to |-> userId, text |-> text]
Thrown(text) == [type |-> "throw", text |-> text]

StatusRead(roundInfo) == IF roundInfo = Null THEN "NOT_FOUND" ELSE roundInfo.state.status

(* the platform's clock advances *)
Tick ==
  /\ now < Len(ClockTimes)
  /\ now' = now + 1
  /\ UNCHANGED <<threads, scoreboard, prompts, modals, outbox>>

(* the platform hands over what the last handler sent *)
Deliver ==
  /\ outbox # {}
  /\ outbox' = {}
  /\ UNCHANGED <<now, threads, scoreboard, prompts, modals, procs, call, pinned,
               scoreboardMessageCache, BOT_USER_ID>>

(* ------------------------- /logic <question> -------------------------- *)
RootText(op, question) ==
  [k |-> "root", op |-> op, question |-> question, closed |-> FALSE,
   buttons |-> {"submit_private_answer", "edit_question", "close_round"}]

(* fault: the question is not stored in the round *)
OpenRoundWithoutQuestion(op, threadTs, channelId, question) ==
  [version |-> "1", op |-> op, status |-> OPEN, threadTs |-> threadTs,
   channelId |-> channelId]

OpenRound(op, threadTs, channelId, question) ==
  [version |-> "1", op |-> op, status |-> OPEN, threadTs |-> threadTs,
   channelId |-> channelId, question |-> question]

(* the root message of the new thread *)
PostRoot(ths, user_id, channel_id, rawText, threadTs) ==
  Append(ths, [channelId |-> channel_id, threadTs |-> threadTs,
               msgs |-> <<[user |-> Bot, text |-> RootText(user_id, rawText)]>>])

(* the control message, then the instruction message *)
PostRound(ths, user_id, channel_id, rawText, threadTs) ==
  LET roundState == OpenRound(user_id, threadTs, channel_id, rawText)
      withControl == ChatPostReply(ths, channel_id, threadTs, formatRoundState(roundState))
  IN ChatPostReply(withControl, channel_id, threadTs, InstructionText(roundState, <<>>))

logic_start(user_id, channel_id, text) ==
  LET rawText == Trim(text)
      threadTs == [sec |-> Time, n |-> Len(threads) + 1]
      posted == PostRoot(threads, user_id, channel_id, rawText, threadTs)
      existingRound == findRoundControlMessage(posted, channel_id, threadTs)
      year == getYearFromTimestamp(threadTs)
  IN
  /\ IF rawText = <<>>
     THEN /\ outbox' = {Respond(user_id, "Usage: /logic <your question>")}
          /\ UNCHANGED <<now, threads, scoreboard, prompts, modals>>
     ELSE /\ Len(threads) < MaxThreads
          /\ IF existingRound # Null
             THEN /\ threads' = posted
                  /\ outbox' = {Respond(user_id, "A round already exists for that puzzle thread.")}
                  /\ UNCHANGED scoreboard
             ELSE /\ threads' = PostRound(posted, user_id, channel_id, rawText, threadTs)
                  /\ scoreboard' = [scoreboard EXCEPT ![channel_id] =
                                      addQuestion(@, user_id, year, Time).pin]
                  /\ outbox' = {Respond(user_id, "Puzzle posted and round started.")}
          /\ UNCHANGED <<now, prompts, modals>>

(* ------------------------ messages in a thread ------------------------ *)
UserText(toks) == [k |-> "user", toks |-> toks]

(* a user posts a message in a channel: a thread that holds no round *)
plain_message(user_id, channel_id, text) ==
  /\ Len(threads) < MaxThreads
  /\ threads' = Append(threads, [channelId |-> channel_id,
                                 threadTs |-> [sec |-> Time, n |-> Len(threads) + 1],
                                 msgs |-> <<[user |-> user_id, text |-> UserText(text)]>>])
  /\ outbox' = {}
  /\ UNCHANGED <<now, scoreboard, prompts, modals>>

Lower(tok) == IF tok = "Guess:" THEN "guess:" ELSE tok

looksLikeGuess(text) ==
  LET lower == Trim(text) IN
  lower # <<>> /\ Lower(Head(lower)) \in {"my guess", "guess:", "answer:", "is it"}

(* what users have put into a thread: their replies and their edits *)
PostsOf(th) ==
  Cardinality({m \in DOMAIN th.msgs :
                 /\ m > 1
                 /\ \/ th.msgs[m].user # Bot
                    \/ th.msgs[m].text = [k |-> "Question updated by OP."]})

PostedReply(ths, i, user_id, text) ==
  [ths EXCEPT ![i].msgs = Append(@, [user |-> user_id, text |-> UserText(text)])]

(* message.subtype of a reply: none, or the one of a reply that carries a file *)
Subtypes == {"", "file_share"}

HeadsUp == [k |-> "Heads-up"]

(* fault: the reminder is also posted in a closed round *)
NudgeDueSettled(roundInfo) ==
  roundInfo # Null /\ roundInfo.state.status \in {SOLVED, CLOSED}

(* if (!roundInfo || roundInfo.state.status !== RoundStatus.SOLVED) return *)
NudgeDue(roundInfo) == roundInfo # Null /\ roundInfo.state.status = SOLVED

(* a user replies in a thread; the bot's message handler then runs: it *)
(* returns at once on a message with a subtype or without a guess      *)
message(user_id, i, text, subtype) ==
  LET th == threads[i]
      posted == PostedReply(threads, i, user_id, text)
      roundInfo == findRoundControlMessage(posted, th.channelId, th.threadTs)
  IN
  /\ PostsOf(th) < MaxPosts
  /\ threads' =
       IF subtype = "" /\ looksLikeGuess(text) /\ NudgeDue(roundInfo)
       THEN ChatPostReply(posted, th.channelId, th.threadTs, HeadsUp)
       ELSE posted
  /\ outbox' = {}
  /\ UNCHANGED <<now, scoreboard, prompts, modals>>

(* ---------------------------- reactions ------------------------------- *)
Reactions == {"yes", "eyes"}

Pending == [status |-> "PENDING"]

(* fault: every DM of the bot is edited, not the one of the press *)
updateDmMessageStatusAll(dms, dmMessageTs, text, status) ==
  [p \in DOMAIN dms |-> [dms[p] EXCEPT !.view = [status |-> status]]]

(* the DM is edited in place: the status line replaces the buttons *)
updateDmMessageStatus(dms, dmMessageTs, text, status) ==
  [dms EXCEPT ![dmMessageTs].view = [status |-> status]]

(* fault: the status of the round is not looked at *)
ReactionPassesAnyStatus(reaction, reactor, reactedMessage, roundInfo, channelId) ==
  /\ reaction = "yes"
  /\ roundInfo # Null
  /\ reactor = roundInfo.state.op
  /\ reactedMessage.user # Bot
  /\ reactedMessage.user = roundInfo.state.op => channelId = LOGIC_CHANNEL_ID_TEST

(* fault: anybody's reaction counts *)
ReactionPassesAnyReactor(reaction, reactor, reactedMessage, roundInfo, channelId) ==
  /\ reaction = "yes"
  /\ roundInfo # Null
  /\ roundInfo.state.status \notin {SOLVED, CLOSED}
  /\ reactedMessage.user # Bot
  /\ reactedMessage.user = roundInfo.state.op => channelId = LOGIC_CHANNEL_ID_TEST

(* fault: the OP may pick the OP's own message in every channel *)
ReactionPassesOwnAnywhere(reaction, reactor, reactedMessage, roundInfo, channelId) ==
  /\ reaction = "yes"
  /\ roundInfo # Null
  /\ roundInfo.state.status \notin {SOLVED, CLOSED}
  /\ reactor = roundInfo.state.op
  /\ reactedMessage.user # Bot

(* the guards of the reaction handler, in the order of the code *)
ReactionPasses(reaction, reactor, reactedMessage, roundInfo, channelId) ==
  /\ reaction = "yes"
  /\ roundInfo # Null
  /\ roundInfo.state.status \notin {SOLVED, CLOSED}
  /\ reactor = roundInfo.state.op
  /\ reactedMessage.user # Bot
  /\ reactedMessage.user = roundInfo.state.op => channelId = LOGIC_CHANNEL_ID_TEST

SolvePayload(ths, th, m, roundInfo, dmMessageTs) ==
  LET reactedMessage == th.msgs[m]
      answerText == IF reactedMessage.text.k = "user" /\ reactedMessage.text.toks # <<>>
                    THEN Trim(reactedMessage.text.toks) ELSE Trim(NoText)
  IN [channelId |-> th.channelId, threadTs |-> th.threadTs,
      guessAuthorId |-> reactedMessage.user, roundControlTs |-> roundInfo.ts,
      questionText |-> getQuestionText(ths, th.channelId, th.threadTs, roundInfo.state),
      answerText |-> answerText, dmChannelId |-> [dm |-> roundInfo.state.op],
      dmMessageTs |-> dmMessageTs]

SolvePrompt(payload) == [kind |-> "solve", payload |-> payload, view |-> Pending]

reaction_added(reactor, i, m, reaction) ==
  LET th == threads[i]
      roundInfo == findRoundControlMessage(threads, th.channelId, th.threadTs)
  IN
  /\ IF ReactionPasses(reaction, reactor, th.msgs[m], roundInfo, th.channelId)
     THEN /\ Len(prompts) < MaxPrompts
          /\ prompts' = Append(prompts, SolvePrompt(
                          SolvePayload(threads, th, m, roundInfo, Len(prompts) + 1)))
          /\ outbox' = {Dm(roundInfo.state.op, "Confirm solution")}
     ELSE /\ outbox' = {}
          /\ UNCHANGED prompts
  /\ UNCHANGED <<now, threads, scoreboard, modals>>

(* ----------------------- private answer form -------------------------- *)
PrivatePayload(ths, th, submitterId, answerText, roundInfo, dmMessageTs) ==
  [channelId |-> th.channelId, threadTs |-> decodeThreadTs(encodeThreadTs(th.threadTs)),
   submitterId |-> submitterId, roundControlTs |-> roundInfo.ts,
   questionText |-> getQuestionText(ths, th.channelId, th.threadTs, roundInfo.state),
   answerText |-> answerText, dmChannelId |-> [dm |-> roundInfo.state.op],
   dmMessageTs |-> dmMessageTs]

PrivatePrompt(payload) == [kind |-> "private", payload |-> payload, view |-> Pending]

(* The Answer privately button opens the form for whoever presses it, with *)
(* no check; this is the submit of that form.                              *)
private_answer_modal(submitterId, i, answer) ==
  LET th == threads[i]
      threadTs == decodeThreadTs(encodeThreadTs(th.threadTs))
      answerText == Trim(answer)
      roundInfo == findRoundControlMessage(threads, th.channelId, threadTs)
  IN
  /\ IF answerText = <<>>
     THEN outbox' = {} /\ UNCHANGED prompts
     ELSE IF roundInfo = Null
     THEN /\ outbox' = {Dm(submitterId, "Error: Round not found. The puzzle may have been deleted.")}
          /\ UNCHANGED prompts
     ELSE IF roundInfo.state.status \in {SOLVED, CLOSED}
     THEN /\ outbox' = {Dm(submitterId, IF roundInfo.state.status = SOLVED
                                        THEN "This puzzle has already been solved."
                                        ELSE "This puzzle has already been closed.")}
          /\ UNCHANGED prompts
     ELSE /\ Len(prompts) < MaxPrompts
          /\ prompts' = Append(prompts, PrivatePrompt(
                          PrivatePayload(threads, th, submitterId, answerText, roundInfo,
                                         Len(prompts) + 1)))
          /\ outbox' = {Dm(roundInfo.state.op, "Confirm private answer")}
  /\ UNCHANGED <<now, threads, scoreboard, modals>>

(* ------------------------- solve confirmation ------------------------- *)
(* fault: a closed round passes the guard *)
AlreadySettledSolvedOnly(roundInfo) ==
  roundInfo = Null \/ roundInfo.state.status = SOLVED

(* fault: the guard turns every press away *)
AlreadySettledAlways(roundInfo) == TRUE

(* the anti-double-confirm guard on the fresh read *)
AlreadySettled(roundInfo) ==
  roundInfo = Null \/ roundInfo.state.status = SOLVED \/ roundInfo.state.status = CLOSED

AlreadyText(roundInfo) ==
  IF roundInfo # Null /\ roundInfo.state.status = CLOSED
  THEN "This round was already closed (no changes made)."
  ELSE "This round was already solved (no changes made)."

ConfirmedText == "Confirmed - round solved and 1 point awarded."

(* who gets the point: the guess author, or the submitter of the form *)
Credited(prompt) ==
  IF prompt.kind = "solve" THEN prompt.payload.guessAuthorId ELSE prompt.payload.submitterId

SolvedNotice(prompt) ==
  IF prompt.kind = "solve" THEN "Solved. Point goes to"
  ELSE "Solved via private answer. Point goes to"

SolvedState(roundInfo, answerText) ==
  Spread(roundInfo.state, [status |-> SOLVED, answer |-> answerText])

(* fault: the control message is left as it was *)
WriteSolvedSkipped(ths, data, roundInfo) == ths

(* chat.update of the control message at the location the payload carries *)
WriteSolved(ths, data, roundInfo) ==
  ChatUpdate(ths, data.channelId, data.threadTs, data.roundControlTs,
             formatRoundState(SolvedState(roundInfo, data.answerText)))

(* fault: the year of the press, not of the thread *)
AwardYearNow(data, t) == CurrentYear(t)

(* the year of the award *)
AwardYear(data, t) == getYearFromTimestamp(data.threadTs)

(* fault: the point goes to the OP who confirmed *)
AwardPointToOp(sb, data, credited, t) ==
  [sb EXCEPT ![data.channelId] =
     addPoints(@, data.dmChannelId.dm, 1, getYearFromTimestamp(data.threadTs), t).pin]

AwardPoint(sb, data, credited, t) ==
  [sb EXCEPT ![data.channelId] = addPoints(@, credited, 1, AwardYear(data, t), t).pin]

(* the notice in the thread, the root's button, the instruction message *)
AnnounceSolved(ths, data, roundInfo, credited, notice) ==
  LET updatedState == SolvedState(roundInfo, data.answerText)
      noticed == ChatPostReply(ths, data.channelId, data.threadTs,
                               [k |-> notice, who |-> credited])
      button == IF updatedState.answer # <<>>
                THEN updateRootMessageButton(noticed, data.channelId, data.threadTs,
                                             updatedState.answer)
                ELSE noticed
  IN findAndUpdateInstructionMessage(button, data.channelId, data.threadTs,
                                     updatedState, <<credited>>)

(* the DM of the OP edited in place, the summary sent to the winner *)
ConfirmedOut(p, credited) ==
  {DmEdit(p, ConfirmedText), Dm(credited, "Congratulations! You solved the puzzle!")}

Confirm(p) ==
  LET data == prompts[p].payload
      credited == Credited(prompts[p])
      roundInfo == findRoundControlMessage(threads, data.channelId, data.threadTs)
  IN
  /\ IF AlreadySettled(roundInfo)
     THEN /\ prompts' = updateDmMessageStatus(prompts, data.dmMessageTs,
                                              AlreadyText(roundInfo), "CANCELLED")
          /\ outbox' = {DmEdit(p, AlreadyText(roundInfo))}
          /\ UNCHANGED <<threads, scoreboard>>
     ELSE /\ threads' = AnnounceSolved(WriteSolved(threads, data, roundInfo),
                                       data, roundInfo, credited, SolvedNotice(prompts[p]))
          /\ scoreboard' = AwardPoint(scoreboard, data, credited, Time)
          /\ prompts' = updateDmMessageStatus(prompts, data.dmMessageTs,
                                              ConfirmedText, "CONFIRMED")
          /\ outbox' = ConfirmedOut(p, credited)
  /\ UNCHANGED <<now, modals>>

confirm_solve(p) ==
  /\ prompts[p].kind = "solve"
  /\ Confirm(p)

confirm_private_solve(p) ==
  /\ prompts[p].kind = "private"
  /\ Confirm(p)

cancel_solve(p) ==
  /\ prompts[p].kind = "solve"
  /\ prompts' = updateDmMessageStatus(prompts, prompts[p].payload.dmMessageTs,
                                      "Cancelled - round remains open.", "CANCELLED")
  /\ outbox' = {DmEdit(p, "Cancelled - round remains open.")}
  /\ UNCHANGED <<now, threads, scoreboard, modals>>

cancel_private_solve(p) ==
  /\ prompts[p].kind = "private"
  /\ prompts' = updateDmMessageStatus(prompts, prompts[p].payload.dmMessageTs,
                                      "Cancelled - round remains open.", "CANCELLED")
  /\ outbox' = {DmEdit(p, "Cancelled - round remains open."),
                Dm(prompts[p].payload.submitterId,
                   "Your private answer was not accepted this time.")}
  /\ UNCHANGED <<now, threads, scoreboard, modals>>

(* --------------------------- edit and close --------------------------- *)
(* the value of the Edit question and Close round buttons of a root *)
ButtonData(th) ==
  [channelId |-> th.channelId, encodedThreadTs |-> encodeThreadTs(th.threadTs),
   op |-> th.msgs[1].text.op]

(* fault: a solved round is not turned away *)
validateOpAndRoundSolvedPasses(ths, userId, channelId, threadTs, expectedOp, action) ==
  LET roundInfo == findRoundControlMessage(ths, channelId, threadTs) IN
  IF userId # expectedOp
  THEN [roundInfo |-> Null, error |-> "NOT_OP",
        text |-> IF action = "edit" THEN "Only the OP can edit the question."
                 ELSE "Only the OP can close this round."]
  ELSE IF roundInfo = Null
  THEN [roundInfo |-> Null, error |-> "NOT_FOUND", text |-> "Round not found."]
  ELSE IF roundInfo.state.status = CLOSED
  THEN [roundInfo |-> Null, error |-> "ALREADY_CLOSED",
        text |-> IF action = "edit" THEN "Cannot edit a closed round."
                 ELSE "This round is already closed."]
  ELSE [roundInfo |-> roundInfo, error |-> "", text |-> ""]

validateOpAndRound(ths, userId, channelId, threadTs, expectedOp, action) ==
  LET roundInfo == findRoundControlMessage(ths, channelId, threadTs) IN
  IF userId # expectedOp
  THEN [roundInfo |-> Null, error |-> "NOT_OP",
        text |-> IF action = "edit" THEN "Only the OP can edit the question."
                 ELSE "Only the OP can close this round."]
  ELSE IF roundInfo = Null
  THEN [roundInfo |-> Null, error |-> "NOT_FOUND", text |-> "Round not found."]
  ELSE IF roundInfo.state.status = CLOSED
  THEN [roundInfo |-> Null, error |-> "ALREADY_CLOSED",
        text |-> IF action = "edit" THEN "Cannot edit a closed round."
                 ELSE "This round is already closed."]
  ELSE IF roundInfo.state.status = SOLVED
  THEN [roundInfo |-> Null, error |-> "ALREADY_SOLVED",
        text |-> IF action = "edit" THEN "Cannot edit a solved round."
                 ELSE "Cannot close a solved round."]
  ELSE [roundInfo |-> roundInfo, error |-> "", text |-> ""]

(* fault: a closed round is given an answer *)
ClosedStateWithAnswer(roundInfo) ==
  Spread(roundInfo.state, [status |-> CLOSED, answer |-> NoText])

ClosedState(roundInfo) == Spread(roundInfo.state, [status |-> CLOSED])

(* fault: the question count is never taken back *)
CloseScoreboardSkipped(sb, channelId, threadTs, roundInfo, t) == sb

(* the question count of the OP is taken back when the round read is OPEN *)
CloseScoreboard(sb, channelId, threadTs, roundInfo, t) ==
  IF roundInfo.state.status = OPEN
  THEN [sb EXCEPT ![channelId] =
          removeQuestion(@, roundInfo.state.op, getYearFromTimestamp(threadTs), t).pin]
  ELSE sb

WriteClosed(ths, channelId, threadTs, roundInfo) ==
  ChatUpdate(ths, channelId, threadTs, roundInfo.ts, formatRoundState(ClosedState(roundInfo)))

AnnounceClosed(ths, channelId, threadTs, roundInfo, userId) ==
  ChatPostReply(
    findAndUpdateInstructionMessage(
      updateRootMessageClosed(ths, channelId, threadTs, userId),
      channelId, threadTs, ClosedState(roundInfo), <<>>),
    channelId, threadTs, [k |-> "Round closed by OP."])

close_round(userId, i) ==
  LET buttonData == ButtonData(threads[i])
      channelId == buttonData.channelId
      threadTs == decodeThreadTs(buttonData.encodedThreadTs)
      validation == validateOpAndRound(threads, userId, channelId, threadTs,
                                       buttonData.op, "close")
      roundInfo == validation.roundInfo
  IN
  /\ IF validation.error # ""
     THEN /\ outbox' = {Ephemeral(channelId, userId, validation.text)}
          /\ UNCHANGED <<threads, scoreboard>>
     ELSE /\ scoreboard' = CloseScoreboard(scoreboard, channelId, threadTs, roundInfo, Time)
          /\ threads' = AnnounceClosed(WriteClosed(threads, channelId, threadTs, roundInfo),
                                       channelId, threadTs, roundInfo, userId)
          /\ outbox' = {Ephemeral(channelId, userId, "Round closed.")}
  /\ UNCHANGED <<now, prompts, modals>>

ModalMetadata(buttonData, userId) ==
  [channelId |-> buttonData.channelId, encodedThreadTs |-> buttonData.encodedThreadTs,
   op |-> buttonData.op, user |-> userId]

(* the Edit question button: opens the form for the OP of an OPEN round *)
edit_question(userId, i) ==
  LET buttonData == ButtonData(threads[i])
      channelId == buttonData.channelId
      threadTs == decodeThreadTs(buttonData.encodedThreadTs)
      validation == validateOpAndRound(threads, userId, channelId, threadTs,
                                       buttonData.op, "edit")
  IN
  /\ IF validation.error # ""
     THEN /\ outbox' = {Ephemeral(channelId, userId, validation.text)}
          /\ UNCHANGED modals
     ELSE /\ outbox' = {ViewUpdate(userId, "Edit question")}
          /\ modals' = modals \cup {ModalMetadata(buttonData, userId)}
  /\ UNCHANGED <<now, threads, scoreboard, prompts>>

EditedState(roundInfo, newQuestion) == Spread(roundInfo.state, [question |-> newQuestion])

(* fault: the edited round is posted as a new reply *)
WriteEditedAsReply(ths, channelId, threadTs, roundInfo, newQuestion) ==
  ChatPostReply(ths, channelId, threadTs,
                formatRoundState(EditedState(roundInfo, newQuestion)))

WriteEdited(ths, channelId, threadTs, roundInfo, newQuestion) ==
  ChatUpdate(ths, channelId, threadTs, roundInfo.ts,
             formatRoundState(EditedState(roundInfo, newQuestion)))

(* the root is rewritten with the new question and all three buttons *)
AnnounceEdited(ths, channelId, threadTs, op, newQuestion) ==
  ChatPostReply(
    ChatUpdate(ths, channelId, threadTs, 1, RootText(op, newQuestion)),
    channelId, threadTs, [k |-> "Question updated by OP."])

(* what the submit of the form answers before it writes anything *)
(* fault: a solved round is not refused *)
EditRefusalSolvedPasses(metadata, newQuestion, roundInfo) ==
  IF metadata.user # metadata.op THEN "Only the OP can edit the question."
  ELSE IF newQuestion = <<>> THEN "Question cannot be empty."
  ELSE IF roundInfo = Null THEN "Round not found."
  ELSE IF roundInfo.state.status = CLOSED THEN "Cannot edit a closed round."
  ELSE ""

EditRefusal(metadata, newQuestion, roundInfo) ==
  IF metadata.user # metadata.op THEN "Only the OP can edit the question."
  ELSE IF newQuestion = <<>> THEN "Question cannot be empty."
  ELSE IF roundInfo = Null THEN "Round not found."
  ELSE IF roundInfo.state.status = CLOSED THEN "Cannot edit a closed round."
  ELSE IF roundInfo.state.status = SOLVED THEN "Cannot edit a solved round."
  ELSE ""

(* the form stays open only on an empty question *)
ModalsAfter(ms, metadata, refusal) ==
  IF refusal = "Question cannot be empty." THEN ms ELSE ms \ {metadata}

edit_question_modal(metadata, question) ==
  LET channelId == metadata.channelId
      threadTs == decodeThreadTs(metadata.encodedThreadTs)
      userId == metadata.user
      newQuestion == Trim(question)
      roundInfo == findRoundControlMessage(threads, channelId, threadTs)
      refusal == EditRefusal(metadata, newQuestion, roundInfo)
  IN
  /\ metadata \in modals
  /\ IF refusal # ""
     THEN /\ outbox' = {ViewUpdate(userId, refusal)}
          /\ UNCHANGED threads
     ELSE /\ PostsOf(threads[Smallest(ThreadAt(threads, channelId, threadTs))]) < MaxPosts
          /\ threads' = AnnounceEdited(
                          WriteEdited(threads, channelId, threadTs, roundInfo, newQuestion),
                          channelId, threadTs, metadata.op, newQuestion)
          /\ outbox' = {ViewUpdate(userId, "Question updated successfully!")}
  /\ modals' = ModalsAfter(modals, metadata, refusal)
  /\ UNCHANGED <<now, scoreboard, prompts>>

(* -------------------- events handled one at a time -------------------- *)
ThreadIds == DOMAIN threads
PromptIds == DOMAIN prompts

(* the threads whose root carries the buttons of a round *)
RoundIds == {i \in ThreadIds : threads[i].msgs[1].text.k = "root"}

Handle ==
  \/ Tick
  \/ \E u \in Users, c \in ALLOWED_CHANNEL_IDS, q \in QuestionInputs : logic_start(u, c, q)
  \/ \E u \in Users, c \in ALLOWED_CHANNEL_IDS : plain_message(u, c, <<"hello">>)
  \/ \E u \in Users, i \in ThreadIds, t \in GuessInputs, st \in Subtypes :
       message(u, i, t, st)
  \/ \E u \in Users, i \in ThreadIds, r \in Reactions :
       \E m \in DOMAIN threads[i].msgs : reaction_added(u, i, m, r)
  \/ \E u \in Users, i \in RoundIds, a \in ModalAnswerInputs : private_answer_modal(u, i, a)
  \/ \E p \in PromptIds : confirm_solve(p)
  \/ \E p \in PromptIds : cancel_solve(p)
  \/ \E p \in PromptIds : confirm_private_solve(p)
  \/ \E p \in PromptIds : cancel_private_solve(p)
  \/ \E u \in Users, i \in RoundIds : edit_question(u, i)
  \/ \E md \in modals, q \in EditInputs : edit_question_modal(md, q)
  \/ \E u \in Users, i \in RoundIds : close_round(u, i)

Next == (outbox = {} /\ Handle /\ UNCHANGED <<procs, call, pinned, scoreboardMessageCache, BOT_USER_ID>>) \/ Deliver

Spec == Init /\ [][Next]_vars

(* --------------------------- observations ----------------------------- *)
(* the round a thread holds, as a handler would read it *)
RoundIn(ths, i) == findRoundControlMessage(ths, ths[i].channelId, ths[i].threadTs)

(* the thread a payload points at *)
ThreadOf(ths, data) == Smallest(ThreadAt(ths, data.channelId, data.threadTs))

(* the instruction message of a thread *)
InstructionIn(ths, i) ==
  LET msgs == ths[i].msgs
      hits == {m \in DOMAIN msgs : msgs[m].user = Bot /\ msgs[m].text.k = "Round"}
  IN IF hits = {} THEN Null ELSE msgs[Smallest(hits)].text

(* the persisted data of a channel *)
Stored(sb, c) == getScoreboardData(PinsList(sb[c]), 0)

ScoreOf(sb, c, u, y) ==
  LET byYear == Stored(sb, c).scoresByYear IN
  IF Has(byYear, y) THEN OrZero(byYear[y], u) ELSE 0

QuestionsOf(sb, c, u, y) ==
  LET byYear == Stored(sb, c).questionsByYear IN
  IF Has(byYear, y) THEN OrZero(byYear[y], u) ELSE 0

Cells == ALLOWED_CHANNEL_IDS \X Users \X Years

RECURSIVE SumScores(_, _)
SumScores(sb, S) ==
  IF S = {} THEN 0
  ELSE LET cell == CHOOSE x \in S : TRUE
       IN ScoreOf(sb, cell[1], cell[2], cell[3]) + SumScores(sb, S \ {cell})

TotalScore(sb) == SumScores(sb, Cells)

SolvedRounds(ths) == {i \in DOMAIN ths : StatusRead(RoundIn(ths, i)) = SOLVED}

(* the rounds of an OP in a channel and year that count as questions *)
LiveRounds(ths, c, u, y) ==
  {i \in DOMAIN ths :
     /\ ths[i].channelId = c
     /\ getYearFromTimestamp(ths[i].threadTs) = y
     /\ RoundIn(ths, i) # Null
     /\ RoundIn(ths, i).state.op = u
     /\ RoundIn(ths, i).state.status \in {OPEN, SOLVED}}

SameScores(sb1, sb2) ==
  \A cell \in Cells : ScoreOf(sb1, cell[1], cell[2], cell[3]) = ScoreOf(sb2, cell[1], cell[2], cell[3])

SameQuestions(sb1, sb2) ==
  \A cell \in Cells :
    QuestionsOf(sb1, cell[1], cell[2], cell[3]) = QuestionsOf(sb2, cell[1], cell[2], cell[3])

(* a Yes press on prompt p is handled: the step edits the DM of p *)
YesPressed(p) ==
  /\ outbox = {}
  /\ \E x \in outbox' : x.type = "dm_update" /\ x.prompt = p
  /\ (confirm_solve(p) \/ confirm_private_solve(p))

(* ------------------------- the Yes press (C2) ------------------------- *)
(* C2: a Yes press handled while the round is OPEN leaves the control      *)
(* message SOLVED with the payload's answer text and with op, threadTs,     *)
(* channelId and question as they were; the credited identity's score for   *)
(* the thread's year grows by exactly 1, every other score and every        *)
(* question count stays.                                                    *)
C2_YesOnOpenSolvesAndAwardsOne ==
  [][\A p \in PromptIds :
       LET data == prompts[p].payload
           i == ThreadOf(threads, data)
           before == RoundIn(threads, i)
           after == RoundIn(threads', i)
           year == getYearFromTimestamp(threads[i].threadTs)
       IN (YesPressed(p) /\ StatusRead(before) = OPEN)
          => /\ after # Null
             /\ after.state.status = SOLVED
             /\ after.state.answer = data.answerText
             /\ \A f \in {"op", "threadTs", "channelId", "question"} :
                  after.state[f] = before.state[f]
             /\ \A cell \in Cells :
                  ScoreOf(scoreboard', cell[1], cell[2], cell[3])
                    = ScoreOf(scoreboard, cell[1], cell[2], cell[3])
                      + (IF cell = <<data.channelId, Credited(prompts[p]), year>>
                         THEN 1 ELSE 0)
             /\ SameQuestions(scoreboard, scoreboard')
    ]_vars

(* a round was just solved by a Yes press: the OP's DM says so *)
C2_Witness ==
  \E p \in PromptIds :
    /\ DmEdit(p, ConfirmedText) \in outbox
    /\ StatusRead(RoundIn(threads, ThreadOf(threads, prompts[p].payload))) = SOLVED
    /\ TotalScore(scoreboard) = 1

(* -------------------- the Yes press, too late (C3) --------------------- *)
(* C3: a Yes press handled when the fresh read of the round is SOLVED or    *)
(* CLOSED writes nothing to the thread, awards nothing and turns the DM     *)
(* into the cancelled "already ... (no changes made)" state; presses        *)
(* handled one after another never award more points than rounds are        *)
(* solved.                                                                  *)
C3_YesOnSettledChangesNothing ==
  [][/\ \A p \in PromptIds :
          LET data == prompts[p].payload
              before == RoundIn(threads, ThreadOf(threads, data))
          IN (YesPressed(p) /\ StatusRead(before) \in {SOLVED, CLOSED})
             => /\ threads' = threads
                /\ scoreboard' = scoreboard
                /\ prompts'[p].view.status = "CANCELLED"
                /\ outbox' = {DmEdit(p, IF StatusRead(before) = CLOSED
                                        THEN "This round was already closed (no changes made)."
                                        ELSE "This round was already solved (no changes made).")}
     /\ scoreboard' # scoreboard
          => TotalScore(scoreboard') <= Cardinality(SolvedRounds(threads'))
    ]_vars

(* after one guess was confirmed, the Yes of another guess was refused *)
C3_Witness ==
  \E p, q \in PromptIds :
    /\ p # q
    /\ prompts[p].view.status = "CONFIRMED"
    /\ prompts[q].payload.answerText # prompts[p].payload.answerText
    /\ DmEdit(q, "This round was already solved (no changes made).") \in outbox
    /\ TotalScore(scoreboard) = 1

(* ------------------------------ close (C5) ----------------------------- *)
(* a close press of u is handled: the step answers u in the channel *)
ClosePressed(u, i) ==
  /\ outbox = {}
  /\ \E x \in outbox' : x.type = "ephemeral" /\ x.to = u
  /\ close_round(u, i)

(* C5: a close by the OP on an OPEN round sets the control message to       *)
(* CLOSED and takes exactly 1 from the OP's question count of the thread's  *)
(* year; a close on a SOLVED round leaves the counts; the count of an       *)
(* identity is always the number of its rounds that are OPEN or SOLVED, so  *)
(* a start followed by its close restores the count.                        *)
C5_CloseTakesBackTheQuestion ==
  [][/\ \A u \in Users, i \in RoundIds :
          LET before == RoundIn(threads, i)
              c == threads[i].channelId
              year == getYearFromTimestamp(threads[i].threadTs)
          IN /\ (ClosePressed(u, i) /\ StatusRead(before) = OPEN /\ u = before.state.op)
                  => /\ StatusRead(RoundIn(threads', i)) = CLOSED
                     /\ QuestionsOf(scoreboard', c, u, year)
                          = QuestionsOf(scoreboard, c, u, year) - 1
             /\ (ClosePressed(u, i) /\ StatusRead(before) = SOLVED)
                  => SameQuestions(scoreboard, scoreboard')
     /\ (scoreboard' # scoreboard \/ threads' # threads)
          => \A cell \in Cells :
               QuestionsOf(scoreboard', cell[1], cell[2], cell[3])
                 = Cardinality(LiveRounds(threads', cell[1], cell[2], cell[3]))
    ]_vars

(* a round was started and closed, and its OP's count is back at zero *)
C5_Witness ==
  \E i \in RoundIds :
    /\ StatusRead(RoundIn(threads, i)) = CLOSED
    /\ Ephemeral(threads[i].channelId, RoundIn(threads, i).state.op, "Round closed.") \in outbox
    /\ \A cell \in Cells : QuestionsOf(scoreboard, cell[1], cell[2], cell[3]) = 0
    /\ scoreboard[threads[i].channelId].data # NoMsg

(* ------------------------- close, refused (C6) ------------------------- *)
CloseRefusedText(status) ==
  IF status = CLOSED THEN "This round is already closed." ELSE "Cannot close a solved round."

(* C6, as the code has it: a close press by the OP on a round that is       *)
(* CLOSED or SOLVED is answered with "This round is already closed." or     *)
(* "Cannot close a solved round." and leaves the thread (control and        *)
(* instruction message) and the scoreboard as they were.                    *)
C6_CloseByOpOnSettledRefused ==
  [][\A u \in Users, i \in RoundIds :
       LET before == RoundIn(threads, i) IN
       (ClosePressed(u, i) /\ StatusRead(before) \in {CLOSED, SOLVED}
          /\ u = ButtonData(threads[i]).op)
       => /\ outbox' = {Ephemeral(threads[i].channelId, u,
                                  CloseRefusedText(StatusRead(before)))}
          /\ threads' = threads
          /\ scoreboard' = scoreboard
    ]_vars

(* C6 as stated, for a close press by anyone *)
C6_CloseOnSettledRefused ==
  [][\A u \in Users, i \in RoundIds :
       LET before == RoundIn(threads, i) IN
       (ClosePressed(u, i) /\ StatusRead(before) \in {CLOSED, SOLVED})
       => /\ outbox' = {Ephemeral(threads[i].channelId, u,
                                  CloseRefusedText(StatusRead(before)))}
          /\ threads' = threads
          /\ scoreboard' = scoreboard
    ]_vars

(* the OP's second close was just refused *)
C6_Witness ==
  \E i \in RoundIds :
    /\ StatusRead(RoundIn(threads, i)) = CLOSED
    /\ Ephemeral(threads[i].channelId, RoundIn(threads, i).state.op,
                 "This round is already closed.") \in outbox

(* -------------------- who gets a prompt (C7, C8, C9) ------------------- *)
(* what the reaction handler and the private-answer form have in common:  *)
(* they leave the threads and the scoreboard alone and send direct        *)
(* messages only; a step that changes nothing at all needs no look        *)
QuietStep ==
  /\ outbox = {}
  /\ <<prompts, outbox>>' # <<prompts, outbox>>
  /\ UNCHANGED <<now, threads, scoreboard, modals>>
  /\ \A x \in outbox' : x.type = "dm"

PromptSent(out) == \E x \in out : x.type = "dm" /\ x.text \in {"Confirm solution",
                                                               "Confirm private answer"}

(* C7: the reaction path and the private-answer path send a confirmation   *)
(* prompt only when the round they read is OPEN; when it is SOLVED, CLOSED  *)
(* or not found, no prompt is sent and the thread (the control message)     *)
(* and the scoreboard stay as they were.                                    *)
C7_PromptOnlyWhileOpen ==
  [][/\ QuietStep => \A u \in Users, i \in ThreadIds :
          LET read == StatusRead(RoundIn(threads, i))
              handled == \/ \E m \in DOMAIN threads[i].msgs, r \in Reactions :
                              reaction_added(u, i, m, r)
                         \/ \E a \in ModalAnswerInputs :
                              i \in RoundIds /\ private_answer_modal(u, i, a)
          IN /\ (handled /\ read # OPEN)
                  => /\ prompts' = prompts
                     /\ ~PromptSent(outbox')
                     /\ threads' = threads
                     /\ scoreboard' = scoreboard
             /\ (handled /\ (prompts' # prompts \/ PromptSent(outbox'))) => read = OPEN
     /\ prompts' # prompts /\ Len(prompts') > Len(prompts)
          => LET data == prompts'[Len(prompts')].payload
             IN StatusRead(RoundIn(threads, ThreadOf(threads, data))) = OPEN
    ]_vars

(* a private answer for a round already solved was just turned away *)
C7_Witness ==
  \E i \in RoundIds, u \in Users :
    /\ StatusRead(RoundIn(threads, i)) = SOLVED
    /\ outbox = {Dm(u, "This puzzle has already been solved.")}

(* C8: a :yes: reaction leads to a prompt only if the reactor is the        *)
(* round's OP and the author of the message is not the bot; when either     *)
(* guard fails nothing is sent to anyone, nothing is posted in the thread   *)
(* and the control message and the scoreboard stay as they were.            *)
C8_YesReactionGuards ==
  [][QuietStep => \A u \in Users, i \in ThreadIds :
       \A m \in DOMAIN threads[i].msgs :
         LET roundInfo == RoundIn(threads, i)
             guardsHold == /\ roundInfo # Null
                           /\ u = roundInfo.state.op
                           /\ threads[i].msgs[m].user # Bot
         IN reaction_added(u, i, m, "yes")
            => /\ ~guardsHold => /\ outbox' = {}
                                 /\ UNCHANGED <<threads, scoreboard, prompts, modals>>
               /\ prompts' # prompts => guardsHold
    ]_vars

(* a state in which a :yes: of somebody who is not the OP is ignored and a  *)
(* :yes: on a message of the bot is ignored                                 *)
C8_Witness ==
  \E i \in RoundIds :
    LET roundInfo == RoundIn(threads, i) IN
    /\ outbox = {}
    /\ StatusRead(roundInfo) = OPEN
    /\ \E m \in DOMAIN threads[i].msgs :
         /\ threads[i].msgs[m].user \notin {Bot, roundInfo.state.op}
         /\ prompts # <<>>
         /\ prompts[1].payload.guessAuthorId = threads[i].msgs[m].user

(* C9: a :yes: of the OP on a message the OP wrote, in an OPEN round, is    *)
(* ignored (no prompt, nothing changes) outside the test channel; inside    *)
(* it, the OP gets the prompt, with the OP as the candidate winner.         *)
C9_OwnMessageOnlyInTestChannel ==
  [][QuietStep => \A u \in Users, i \in ThreadIds :
       \A m \in DOMAIN threads[i].msgs :
         LET roundInfo == RoundIn(threads, i) IN
         (reaction_added(u, i, m, "yes") /\ StatusRead(roundInfo) = OPEN
            /\ u = roundInfo.state.op /\ threads[i].msgs[m].user = u)
         => IF threads[i].channelId # LOGIC_CHANNEL_ID_TEST
            THEN /\ outbox' = {}
                 /\ UNCHANGED <<threads, scoreboard, prompts, modals>>
            ELSE /\ outbox' = {Dm(u, "Confirm solution")}
                 /\ Len(prompts') = Len(prompts) + 1
                 /\ prompts'[Len(prompts')].kind = "solve"
                 /\ prompts'[Len(prompts')].view = Pending
                 /\ prompts'[Len(prompts')].payload.guessAuthorId = u
                 /\ prompts'[Len(prompts')].payload.threadTs = threads[i].threadTs
                 /\ UNCHANGED <<threads, scoreboard>>
    ]_vars

(* the OP was just prompted about a message of the OP, in the test channel *)
C9_Witness ==
  \E p \in PromptIds :
    LET data == prompts[p].payload
        roundInfo == RoundIn(threads, ThreadOf(threads, data))
    IN /\ prompts[p].kind = "solve"
       /\ data.channelId = LOGIC_CHANNEL_ID_TEST
       /\ data.guessAuthorId = roundInfo.state.op
       /\ outbox = {Dm(roundInfo.state.op, "Confirm solution")}

(* ----------------------- the year of a point (C10) --------------------- *)
(* C10: the point of a solve is recorded under the year of the thread's     *)
(* timestamp, whatever the time of the Yes press: the score of the          *)
(* credited identity under that year grows by 1 and no score under any      *)
(* other year changes.                                                      *)
C10_PointUnderThreadYear ==
  [][\A p \in PromptIds :
       LET data == prompts[p].payload
           i == ThreadOf(threads, data)
           threadYear == YearFrom(1970, threads[i].threadTs.sec \div 86400)
       IN (YesPressed(p) /\ StatusRead(RoundIn(threads, i)) = OPEN)
          => /\ ScoreOf(scoreboard', data.channelId, Credited(prompts[p]), threadYear)
                  = ScoreOf(scoreboard, data.channelId, Credited(prompts[p]), threadYear) + 1
             /\ \A cell \in Cells :
                  cell[3] # threadYear
                    => ScoreOf(scoreboard', cell[1], cell[2], cell[3])
                         = ScoreOf(scoreboard, cell[1], cell[2], cell[3])
    ]_vars

(* a round of 2024 confirmed in 2025: the point is under 2024 *)
C10_Witness ==
  \E p \in PromptIds :
    LET data == prompts[p].payload IN
    /\ DmEdit(p, ConfirmedText) \in outbox
    /\ CurrentYear(Time) = 2025
    /\ getYearFromTimestamp(data.threadTs) = 2024
    /\ ScoreOf(scoreboard, data.channelId, Credited(prompts[p]), 2024) = 1
    /\ ScoreOf(scoreboard, data.channelId, Credited(prompts[p]), 2025) = 0

(* ------------------------ answer and status (C16) ---------------------- *)
(* C16: in every reachable state the round of a thread's control message    *)
(* has an answer field exactly when its status is SOLVED.                   *)
C16_AnswerIffSolved ==
  \A i \in DOMAIN threads :
    LET roundInfo == RoundIn(threads, i) IN
    roundInfo # Null
      => (Has(roundInfo.state, "answer") <=> roundInfo.state.status = SOLVED)

(* a solved round that holds its answer and the question it was edited to *)
C16_Witness ==
  \E i \in DOMAIN threads :
    /\ RoundIn(threads, i) # Null
    /\ RoundIn(threads, i).state.status = SOLVED
    /\ Has(RoundIn(threads, i).state, "answer")
    /\ RoundIn(threads, i).state.question = <<"q2">>

(* ---------------------- one control message (C17) ---------------------- *)
(* the messages of the bot in thread i whose text decodes as a round *)
ControlMessages(ths, i) ==
  {m \in DOMAIN ths[i].msgs :
     ths[i].msgs[m].user = Bot /\ parseRoundState(ths[i].msgs[m].text) # Null}

(* thread i was opened by /logic: the bot posted its root *)
Started(ths, i) == ths[i].msgs[1].user = Bot

confirm_press(userId, p) == confirm_solve(p) \/ confirm_private_solve(p)

OnlyTheOpTexts == {"Only the OP can close this round.", "Only the OP can edit the question."}

OnlyTheOpAnswer(u) ==
  /\ \E x \in outbox' : x.type \in {"ephemeral", "view"} /\ x.to = u /\ x.text \in OnlyTheOpTexts
  /\ threads' = threads
  /\ scoreboard' = scoreboard

(* C18: a close, edit or confirm press by a user who is not the op of the   *)
(* stored round is answered with "Only the OP can ..." and leaves the       *)
(* control message, the instruction message and the scoreboard unchanged.   *)
C18_OnlyTheOpActs ==
  [][(outbox = {} /\ outbox' # {})
       => \A u \in Users :
            /\ \A i \in RoundIds :
                 LET roundInfo == RoundIn(threads, i) IN
                 (/\ roundInfo # Null
                  /\ u # roundInfo.state.op
                  /\ (close_round(u, i) \/ edit_question(u, i)))
                   => OnlyTheOpAnswer(u)
            /\ \A p \in PromptIds :
                 LET roundInfo == RoundIn(threads, ThreadOf(threads, prompts[p].payload)) IN
                 (/\ roundInfo # Null
                  /\ u # roundInfo.state.op
                  /\ confirm_press(u, p))
                   => OnlyTheOpAnswer(u)
    ]_vars

(* ------------------------ the edit submit (C19) ------------------------ *)
(* C19: a submit of the edit form by the OP on an OPEN round with a         *)
(* non-empty question replaces the question of the stored round and nothing *)
(* else of it, and leaves the scoreboard; on a SOLVED, CLOSED or missing    *)
(* round or with an empty question neither the control message nor the root *)
(* message is written.                                                      *)
C19_EditReplacesOnlyTheQuestion ==
  [][(outbox = {} /\ \E x \in outbox' : x.type = "view" /\ x.text # "Edit question")
       => \A md \in modals, q \in EditInputs :
            LET i == Smallest(ThreadAt(threads, md.channelId, decodeThreadTs(md.encodedThreadTs)))
                before == RoundIn(threads, i)
                after == RoundIn(threads', i)
            IN edit_question_modal(md, q)
                 => /\ scoreboard' = scoreboard
                    /\ IF md.user = md.op /\ StatusRead(before) = OPEN /\ Trim(q) # <<>>
                       THEN /\ after # Null
                            /\ after.ts = before.ts
                            /\ after.state.question = Trim(q)
                            /\ DOMAIN after.state = DOMAIN before.state \cup {"question"}
                            /\ \A key \in DOMAIN before.state \ {"question"} :
                                 after.state[key] = before.state[key]
                            /\ after.state.status = OPEN
                            /\ ~Has(after.state, "answer")
                            /\ threads'[i].msgs[1].text.question = Trim(q)
                       ELSE /\ threads'[i].msgs[1] = threads[i].msgs[1]
                            /\ \A m \in DOMAIN threads[i].msgs :
                                 threads[i].msgs[m].user = Bot
                                   => threads'[i].msgs[m] = threads[i].msgs[m]
    ]_vars

(* the question of an open round was just replaced through the form *)
C19_Witness ==
  /\ \E x \in outbox : x.type = "view" /\ x.text = "Question updated successfully!"
  /\ \E i \in DOMAIN threads :
       /\ StatusRead(RoundIn(threads, i)) = OPEN
       /\ RoundIn(threads, i).state.question = <<"q2">>
       /\ threads[i].msgs[1].text.question = <<"q2">>

(* --------------------- the No press, settled (C20) --------------------- *)
(* C20: a No press handled when the round is already SOLVED or CLOSED only  *)
(* edits the DM, to say that the round is settled: it does not say that the *)
(* round remains open and sends the private submitter no refusal.           *)
C20_NoOnSettledSaysSettled ==
  [][(outbox = {} /\ \E x \in outbox' : x.type = "dm_update")
       => \A p \in PromptIds :
            LET roundInfo == RoundIn(threads, ThreadOf(threads, prompts[p].payload)) IN
            ((cancel_solve(p) \/ cancel_private_solve(p))
               /\ StatusRead(roundInfo) \in {SOLVED, CLOSED})
              => /\ threads' = threads
                 /\ scoreboard' = scoreboard
                 /\ \A x \in outbox' :
                      /\ x.type = "dm_update"
                      /\ x.prompt = p
                      /\ x.text # "Cancelled - round remains open."
    ]_vars

(* ----------------------- the scoreboard, driven ------------------------ *)
(* fault: everybody passes for an admin *)
isAdminAnyone(userId) == TRUE

isAdmin(userId) == userId \in ADMIN_USER_IDS

Deltas == {1, -1}
PointsArgs == -1 .. MaxScore       \* "-1" stands for an argument that is no number
YearArgs == {<<>>} \cup {<<y>> : y \in Years}

(* a caller of the helper: the rejection reaches it as an exception *)
call_addPoints(channelId, userId, points, year) ==
  LET r == addPoints(scoreboard[channelId], userId, points, year, Time) IN
  /\ points > 0 => ScoreOf(scoreboard, channelId, userId, year) < MaxScore
  /\ scoreboard' = [scoreboard EXCEPT ![channelId] = r.pin]
  /\ outbox' = IF r.threw THEN {Thrown("Cannot set score to negative value.")} ELSE {}
  /\ UNCHANGED <<now, threads, prompts, modals>>

call_addQuestion(channelId, userId, year) ==
  /\ QuestionsOf(scoreboard, channelId, userId, year) < MaxScore
  /\ scoreboard' = [scoreboard EXCEPT ![channelId] = addQuestion(@, userId, year, Time).pin]
  /\ outbox' = {}
  /\ UNCHANGED <<now, threads, prompts, modals>>

call_removeQuestion(channelId, userId, year) ==
  /\ scoreboard' = [scoreboard EXCEPT ![channelId] = removeQuestion(@, userId, year, Time).pin]
  /\ outbox' = {}
  /\ UNCHANGED <<now, threads, prompts, modals>>

(* /logic setscore @user <points> [year] *)
logic_setscore(user_id, channel_id, targetUserId, points, yearArg) ==
  LET year == IF yearArg = <<>> THEN CurrentYear(Time) ELSE yearArg[1]
      updatedData == setScoreFn(currentData(scoreboard[channel_id], Time), targetUserId, points, year)
  IN
  /\ IF ~isAdmin(user_id)
     THEN /\ outbox' = {Respond(user_id, "Sorry, only admins can use this command.")}
          /\ UNCHANGED scoreboard
     ELSE IF points < 0
     THEN /\ outbox' = {Respond(user_id, "Usage: /logic setscore @user <points> [year]")}
          /\ UNCHANGED scoreboard
     ELSE IF targetUserId \notin Users
     THEN /\ outbox' = {Respond(user_id, "User not found.")}
          /\ UNCHANGED scoreboard
     ELSE /\ scoreboard' = [scoreboard EXCEPT ![channel_id] = updateScoreboard(@, updatedData, Time).pin]
          /\ outbox' = {Respond(user_id, "Set score")}
  /\ UNCHANGED <<now, threads, prompts, modals>>

(* /logic addpoint @user [year]; "" stands for a command without a user *)
logic_addpoint(user_id, channel_id, targetUserId, yearArg) ==
  LET year == IF yearArg = <<>> THEN CurrentYear(Time) ELSE yearArg[1]
      r == addPoints(scoreboard[channel_id], targetUserId, 1, year, Time)
  IN
  /\ IF ~isAdmin(user_id)
     THEN /\ outbox' = {Respond(user_id, "Sorry, only admins can use this command.")}
          /\ UNCHANGED scoreboard
     ELSE IF targetUserId = ""
     THEN /\ outbox' = {Respond(user_id, "Usage: /logic addpoint @user [year]")}
          /\ UNCHANGED scoreboard
     ELSE IF targetUserId \notin Users
     THEN /\ outbox' = {Respond(user_id, "User not found.")}
          /\ UNCHANGED scoreboard
     ELSE /\ ScoreOf(scoreboard, channel_id, targetUserId, year) < MaxScore
          /\ scoreboard' = [scoreboard EXCEPT ![channel_id] = r.pin]
          /\ outbox' = {Respond(user_id, IF r.threw THEN "Error adding point." ELSE "Added 1 point")}
  /\ UNCHANGED <<now, threads, prompts, modals>>

(* fault: the command does not look at the score before it takes the point *)
removePointRefusedNever(currentScore) == FALSE

(* removepoint: if (currentScore - 1 < 0) *)
removePointRefused(currentScore) == currentScore - 1 < 0

(* /logic removepoint @user [year] *)
logic_removepoint(user_id, channel_id, targetUserId, yearArg) ==
  LET year == IF yearArg = <<>> THEN CurrentYear(Time) ELSE yearArg[1]
      data == getScoreboardData(PinsList(scoreboard[channel_id]), Time)
      currentScore == IF Has(data.scoresByYear, year)
                      THEN OrZero(data.scoresByYear[year], targetUserId) ELSE 0
      r == addPoints(scoreboard[channel_id], targetUserId, -1, year, Time)
  IN
  /\ IF ~isAdmin(user_id)
     THEN /\ outbox' = {Respond(user_id, "Sorry, only admins can use this command.")}
          /\ UNCHANGED scoreboard
     ELSE IF targetUserId = ""
     THEN /\ outbox' = {Respond(user_id, "Usage: /logic removepoint @user [year]")}
          /\ UNCHANGED scoreboard
     ELSE IF targetUserId \notin Users
     THEN /\ outbox' = {Respond(user_id, "User not found.")}
          /\ UNCHANGED scoreboard
     ELSE IF removePointRefused(currentScore)
     THEN /\ outbox' = {Respond(user_id, "Error: Cannot remove point.")}
          /\ UNCHANGED scoreboard
     ELSE /\ scoreboard' = [scoreboard EXCEPT ![channel_id] = r.pin]
          /\ outbox' = {Respond(user_id, IF r.threw THEN "Error removing point."
                                                     ELSE "Removed 1 point")}
  /\ UNCHANGED <<now, threads, prompts, modals>>

SbChannels == {LOGIC_CHANNEL_ID_MAIN}
TargetArgs == Users \cup {"@nobody", ""}
Targets == Users \cup {"@nobody"}

SbHandle ==
  \/ \E c \in SbChannels, u \in Users, d \in Deltas, y \in Years : call_addPoints(c, u, d, y)
  \/ \E c \in SbChannels, u \in Users, y \in Years : call_addQuestion(c, u, y)
  \/ \E c \in SbChannels, u \in Users, y \in Years : call_removeQuestion(c, u, y)
  \/ \E u \in Users, c \in SbChannels, t \in Targets, n \in PointsArgs, y \in YearArgs :
       logic_setscore(u, c, t, n, y)
  \/ \E c \in SbChannels, u \in Users, t \in TargetArgs, ya \in YearArgs : logic_addpoint(u, c, t, ya)
  \/ \E c \in SbChannels, u \in Users, t \in TargetArgs, ya \in YearArgs : logic_removepoint(u, c, t, ya)

SbNext == (outbox = {} /\ SbHandle /\ UNCHANGED <<procs, call, pinned, scoreboardMessageCache, BOT_USER_ID>>) \/ Deliver

SbSpec == Init /\ [][SbNext]_vars

(* ------------------------ never below zero (C4) ------------------------ *)
NonNegative(data) ==
  /\ \A y \in DOMAIN data.scoresByYear :
       \A u \in DOMAIN data.scoresByYear[y] : data.scoresByYear[y][u] >= 0
  /\ \A y \in DOMAIN data.questionsByYear :
       \A u \in DOMAIN data.questionsByYear[y] : data.questionsByYear[y][u] >= 0

(* C4: through addPoints with either sign, addQuestion, removeQuestion and  *)
(* setscore every stored score and question count stays >= 0; an addPoints  *)
(* whose result would be negative throws and the persisted data message is  *)
(* the one there was before the call.                                       *)
C4_NeverBelowZero ==
  [][/\ scoreboard' # scoreboard
          => \A c \in ALLOWED_CHANNEL_IDS : NonNegative(Stored(scoreboard', c))
     /\ (outbox = {} /\ \A x \in outbox' : x.type = "throw")
          => \A c \in SbChannels, u \in Users, d \in Deltas, y \in Years :
               (call_addPoints(c, u, d, y) /\ ScoreOf(scoreboard, c, u, y) + d < 0)
               => /\ \E x \in outbox' : x.type = "throw"
                  /\ scoreboard'[c].data = scoreboard[c].data
    ]_vars

(* a point was just refused to be taken from a score of zero, next to a    *)
(* score that is stored                                                     *)
C4_Witness ==
  \E c \in SbChannels :
    /\ \E x \in outbox : x.type = "throw"
    /\ scoreboard[c].data # NoMsg
    /\ \E u \in Users, y \in Years : ScoreOf(scoreboard, c, u, y) = MaxScore
    /\ \E u \in Users, y \in Years :
         /\ Has(Stored(scoreboard, c).scoresByYear, y)
         /\ Has(Stored(scoreboard, c).scoresByYear[y], u)
         /\ ScoreOf(scoreboard, c, u, y) = 0

(* ---------------------------- setscore (C13) --------------------------- *)
(* C13: /logic setscore by an admin with points p >= 0 for user B and year  *)
(* y (the current year when none is given) leaves B's score of year y at p, *)
(* whatever it was, and changes no other score and no question count.       *)
C13_SetscoreSetsExactly ==
  [][(outbox = {} /\ \E x \in outbox' : x.type = "respond" /\ x.text = "Set score")
       => \A c \in SbChannels, a \in Users, B \in Users, p \in 0 .. MaxScore, ya \in YearArgs :
            (logic_setscore(a, c, B, p, ya) /\ isAdmin(a))
              => LET y == IF ya = <<>> THEN CurrentYear(Time) ELSE ya[1] IN
                 /\ ScoreOf(scoreboard', c, B, y) = p
                 /\ Has(Stored(scoreboard', c).scoresByYear, y)
                 /\ Has(Stored(scoreboard', c).scoresByYear[y], B)
                 /\ \A cell \in Cells \ {<<c, B, y>>} :
                      ScoreOf(scoreboard', cell[1], cell[2], cell[3])
                        = ScoreOf(scoreboard, cell[1], cell[2], cell[3])
                 /\ SameQuestions(scoreboard, scoreboard')
    ]_vars

(* a score was just set to 0 beside a question count and another score *)
C13_Witness ==
  \E c \in SbChannels :
    /\ \E x \in outbox : x.type = "respond" /\ x.text = "Set score"
    /\ \E u \in Users, y \in Years :
         /\ Has(Stored(scoreboard, c).scoresByYear, y)
         /\ Has(Stored(scoreboard, c).scoresByYear[y], u)
         /\ ScoreOf(scoreboard, c, u, y) = 0
    /\ \E u \in Users, y \in Years : ScoreOf(scoreboard, c, u, y) = MaxScore
    /\ \E u \in Users, y \in Years : QuestionsOf(scoreboard, c, u, y) = MaxScore

(* --------------------------- removepoint (C14) ------------------------- *)
RemovepointAnswers ==
  {"Error: Cannot remove point.", "Error removing point.", "Removed 1 point"}

(* C14: /logic removepoint by an admin for a user whose score of the year   *)
(* is 0 or absent answers with the error of the command and changes         *)
(* nothing: the data message and the display message are as before.         *)
C14_RemovepointAtZeroRefused ==
  [][(outbox = {} /\ \E x \in outbox' : x.type = "respond" /\ x.text \in RemovepointAnswers)
       => \A c \in SbChannels, a \in Users, B \in Users, ya \in YearArgs :
            LET y == IF ya = <<>> THEN CurrentYear(Time) ELSE ya[1] IN
            (logic_removepoint(a, c, B, ya) /\ isAdmin(a) /\ ScoreOf(scoreboard, c, B, y) = 0)
              => /\ outbox' = {Respond(a, "Error: Cannot remove point.")}
                 /\ scoreboard'[c].data = scoreboard[c].data
                 /\ scoreboard'[c].display = scoreboard[c].display
    ]_vars

(* the point was just refused where a score of 0 and another score are stored *)
C14_Witness ==
  \E c \in SbChannels :
    /\ \E x \in outbox : x.type = "respond" /\ x.text = "Error: Cannot remove point."
    /\ \E u \in Users, y \in Years :
         /\ Has(Stored(scoreboard, c).scoresByYear, y)
         /\ Has(Stored(scoreboard, c).scoresByYear[y], u)
         /\ ScoreOf(scoreboard, c, u, y) = 0
    /\ \E u \in Users, y \in Years : ScoreOf(scoreboard, c, u, y) = MaxScore

(* ------------------------ question counts (C15) ------------------------ *)
NoZeroQuestion(data) ==
  \A y \in DOMAIN data.questionsByYear :
    \A u \in DOMAIN data.questionsByYear[y] : data.questionsByYear[y][u] # 0

(* C15: removeQuestion on a count of 1 removes the user's entry of the year, *)
(* on a count of 0 or an absent entry it changes no count; through          *)
(* addQuestion and removeQuestion no stored question count is ever 0.       *)
C15_QuestionCountNeverStoredZero ==
  [][/\ scoreboard' # scoreboard
          => \A c \in ALLOWED_CHANNEL_IDS : NoZeroQuestion(Stored(scoreboard', c))
     /\ (outbox = {} /\ outbox' = {})
          => \A c \in SbChannels, u \in Users, y \in Years :
               call_removeQuestion(c, u, y)
                 => /\ ~(/\ Has(Stored(scoreboard', c).questionsByYear, y)
                         /\ Has(Stored(scoreboard', c).questionsByYear[y], u))
                       \/ QuestionsOf(scoreboard, c, u, y) > 1
                    /\ QuestionsOf(scoreboard, c, u, y) = 0
                         => /\ SameQuestions(scoreboard, scoreboard')
                            /\ SameScores(scoreboard, scoreboard')
    ]_vars

(* removeQuestion left a year without any entry, beside a count of another year *)
C15_Witness ==
  \E c \in SbChannels, y \in Years, z \in Years, v \in Users :
    /\ outbox = {}
    /\ Has(Stored(scoreboard, c).questionsByYear, y)
    /\ DOMAIN Stored(scoreboard, c).questionsByYear[y] = {}
    /\ QuestionsOf(scoreboard, c, v, z) = MaxScore

(* ---------------------- handlers running together ---------------------- *)
(* A handler in flight is a record: its name, where it stands, what it was *)
(* called with, the round it read and the scoreboard data it read.  Every  *)
(* step below is the code between two awaits of the handler.               *)
ConfirmHandlers == {"confirm_solve", "confirm_private_solve"}

Handler(h, arg) ==
  [h |-> h, pc |-> "read", arg |-> arg, roundInfo |-> Null, currentData |-> Null]

Begin(h, arg) ==
  /\ Len(procs) < MaxInFlight
  /\ procs' = Append(procs, Handler(h, arg))
  /\ UNCHANGED <<now, threads, scoreboard, prompts, modals, outbox>>

press_confirm_solve(p) ==
  /\ prompts[p].kind = "solve"
  /\ Begin("confirm_solve", [p |-> p])

press_confirm_private_solve(p) ==
  /\ prompts[p].kind = "private"
  /\ Begin("confirm_private_solve", [p |-> p])

press_close_round(userId, i) == Begin("close_round", [userId |-> userId, i |-> i])

submit_edit_question_modal(metadata, question) ==
  Begin("edit_question_modal", [metadata |-> metadata, question |-> question])

At(k, hs, pc) == procs[k].h \in hs /\ procs[k].pc = pc

Goto(k, pc) == [procs EXCEPT ![k].pc = pc]

(* the channel and thread a handler in flight works on *)
ChannelOf(k) ==
  IF procs[k].h \in ConfirmHandlers THEN prompts[procs[k].arg.p].payload.channelId
  ELSE IF procs[k].h = "close_round" THEN ButtonData(threads[procs[k].arg.i]).channelId
  ELSE procs[k].arg.metadata.channelId

ThreadTsOf(k) ==
  IF procs[k].h \in ConfirmHandlers THEN prompts[procs[k].arg.p].payload.threadTs
  ELSE IF procs[k].h = "close_round"
  THEN decodeThreadTs(ButtonData(threads[procs[k].arg.i]).encodedThreadTs)
  ELSE decodeThreadTs(procs[k].arg.metadata.encodedThreadTs)

(* confirm: the fresh read and the anti-double-confirm guard *)
ConfirmRead(k) ==
  LET p == procs[k].arg.p
      data == prompts[p].payload
      roundInfo == findRoundControlMessage(threads, data.channelId, data.threadTs)
  IN
  /\ At(k, ConfirmHandlers, "read")
  /\ IF AlreadySettled(roundInfo)
     THEN /\ prompts' = updateDmMessageStatus(prompts, data.dmMessageTs,
                                              AlreadyText(roundInfo), "CANCELLED")
          /\ outbox' = outbox \cup {DmEdit(p, AlreadyText(roundInfo))}
          /\ procs' = Goto(k, "done")
     ELSE /\ procs' = [procs EXCEPT ![k].pc = "write", ![k].roundInfo = roundInfo]
          /\ UNCHANGED <<prompts, outbox>>
  /\ UNCHANGED <<now, threads, scoreboard, modals>>

(* confirm: the control message is written from the round that was read *)
ConfirmWrite(k) ==
  /\ At(k, ConfirmHandlers, "write")
  /\ threads' = WriteSolved(threads, prompts[procs[k].arg.p].payload, procs[k].roundInfo)
  /\ procs' = Goto(k, "sbread")
  /\ UNCHANGED <<now, scoreboard, prompts, modals, outbox>>

(* updateScoreboard: the display message is located, the data is read *)
ScoreboardRead(k) ==
  LET c == ChannelOf(k)
      located == getOrCreateScoreboard(scoreboard[c], Time)
  IN
  /\ At(k, ConfirmHandlers \cup {"close_round"}, "sbread")
  /\ scoreboard' = [scoreboard EXCEPT ![c] = located]
  /\ procs' = [procs EXCEPT ![k].pc = "sbwrite",
                            ![k].currentData = getScoreboardData(PinsList(located), Time)]
  /\ UNCHANGED <<now, threads, prompts, modals, outbox>>

(* the mutator a handler passes to updateScoreboard *)
Mutated(k) ==
  IF procs[k].h \in ConfirmHandlers
  THEN addPointsFn(procs[k].currentData, Credited(prompts[procs[k].arg.p]), 1,
                   AwardYear(prompts[procs[k].arg.p].payload, Time))
  ELSE removeQuestionFn(procs[k].currentData, procs[k].roundInfo.state.op,
                        getYearFromTimestamp(ThreadTsOf(k)))

(* updateScoreboard: the data that was read, mutated, is drawn and stored *)
ScoreboardWrite(k) ==
  LET c == ChannelOf(k) IN
  /\ At(k, ConfirmHandlers \cup {"close_round"}, "sbwrite")
  /\ scoreboard' = [scoreboard EXCEPT ![c] = StoreUpdated(@, Mutated(k).data, Time)]
  /\ procs' = Goto(k, IF procs[k].h = "close_round" THEN "write" ELSE "tail")
  /\ UNCHANGED <<now, threads, prompts, modals, outbox>>

(* confirm: the notice, the root, the instruction message, the DMs *)
ConfirmTail(k) ==
  LET p == procs[k].arg.p
      data == prompts[p].payload
      credited == Credited(prompts[p])
  IN
  /\ At(k, ConfirmHandlers, "tail")
  /\ threads' = AnnounceSolved(threads, data, procs[k].roundInfo, credited,
                               SolvedNotice(prompts[p]))
  /\ prompts' = updateDmMessageStatus(prompts, data.dmMessageTs, ConfirmedText, "CONFIRMED")
  /\ outbox' = outbox \cup ConfirmedOut(p, credited)
  /\ procs' = Goto(k, "done")
  /\ UNCHANGED <<now, scoreboard, modals>>

(* close: validateOpAndRound *)
CloseRead(k) ==
  LET userId == procs[k].arg.userId
      validation == validateOpAndRound(threads, userId, ChannelOf(k), ThreadTsOf(k),
                                       ButtonData(threads[procs[k].arg.i]).op, "close")
  IN
  /\ At(k, {"close_round"}, "read")
  /\ IF validation.error # ""
     THEN /\ outbox' = outbox \cup {Ephemeral(ChannelOf(k), userId, validation.text)}
          /\ procs' = Goto(k, "done")
     ELSE /\ procs' = [procs EXCEPT
                         ![k].pc = IF validation.roundInfo.state.status = OPEN
                                   THEN "sbread" ELSE "write",
                         ![k].roundInfo = validation.roundInfo]
          /\ UNCHANGED outbox
  /\ UNCHANGED <<now, threads, scoreboard, prompts, modals>>

(* close: the control message is written from the round that was read *)
CloseWrite(k) ==
  /\ At(k, {"close_round"}, "write")
  /\ threads' = WriteClosed(threads, ChannelOf(k), ThreadTsOf(k), procs[k].roundInfo)
  /\ procs' = Goto(k, "tail")
  /\ UNCHANGED <<now, scoreboard, prompts, modals, outbox>>

CloseTail(k) ==
  LET userId == procs[k].arg.userId IN
  /\ At(k, {"close_round"}, "tail")
  /\ threads' = AnnounceClosed(threads, ChannelOf(k), ThreadTsOf(k), procs[k].roundInfo, userId)
  /\ outbox' = outbox \cup {Ephemeral(ChannelOf(k), userId, "Round closed.")}
  /\ procs' = Goto(k, "done")
  /\ UNCHANGED <<now, scoreboard, prompts, modals>>

(* edit: the checks of the submit and the read of the round *)
EditRead(k) ==
  LET metadata == procs[k].arg.metadata
      newQuestion == Trim(procs[k].arg.question)
      roundInfo == findRoundControlMessage(threads, ChannelOf(k), ThreadTsOf(k))
      refusal == EditRefusal(metadata, newQuestion, roundInfo)
  IN
  /\ At(k, {"edit_question_modal"}, "read")
  /\ IF refusal # ""
     THEN /\ outbox' = outbox \cup {ViewUpdate(metadata.user, refusal)}
          /\ modals' = ModalsAfter(modals, metadata, refusal)
          /\ procs' = Goto(k, "done")
     ELSE /\ procs' = [procs EXCEPT ![k].pc = "write", ![k].roundInfo = roundInfo]
          /\ UNCHANGED <<outbox, modals>>
  /\ UNCHANGED <<now, threads, scoreboard, prompts>>

(* edit: the control message is written from the round that was read *)
EditWrite(k) ==
  /\ At(k, {"edit_question_modal"}, "write")
  /\ threads' = WriteEdited(threads, ChannelOf(k), ThreadTsOf(k), procs[k].roundInfo,
                            Trim(procs[k].arg.question))
  /\ procs' = Goto(k, "tail")
  /\ UNCHANGED <<now, scoreboard, prompts, modals, outbox>>

EditTail(k) ==
  LET metadata == procs[k].arg.metadata IN
  /\ At(k, {"edit_question_modal"}, "tail")
  /\ threads' = AnnounceEdited(threads, ChannelOf(k), ThreadTsOf(k), metadata.op,
                               Trim(procs[k].arg.question))
  /\ outbox' = outbox \cup {ViewUpdate(metadata.user, "Question updated successfully!")}
  /\ modals' = modals \ {metadata}
  /\ procs' = Goto(k, "done")
  /\ UNCHANGED <<now, scoreboard, prompts>>

(* An OPEN round of UA in the main channel with a guess of UB in the       *)
(* thread, the prompt for that guess, the prompt for a private answer of   *)
(* UB, and the edit form open: the state the one-at-a-time system is in    *)
(* after start, message, reaction, private answer and Edit question.       *)
ScenarioTs == [sec |-> ClockTimes[1], n |-> 1]

ScenarioThreads ==
  PostedReply(
    PostRound(PostRoot(<<>>, "UA", LOGIC_CHANNEL_ID_MAIN, <<"q1">>, ScenarioTs),
              "UA", LOGIC_CHANNEL_ID_MAIN, <<"q1">>, ScenarioTs),
    1, "UB", <<"guess:", " ", "a1">>)

ScenarioRound == findRoundControlMessage(ScenarioThreads, LOGIC_CHANNEL_ID_MAIN, ScenarioTs)

ScenarioPrompts ==
  <<SolvePrompt(SolvePayload(ScenarioThreads, ScenarioThreads[1], Len(ScenarioThreads[1].msgs),
                             ScenarioRound, 1)),
    PrivatePrompt(PrivatePayload(ScenarioThreads, ScenarioThreads[1], "UB", <<"a2">>,
                                 ScenarioRound, 2))>>

ScenarioModals == {ModalMetadata(ButtonData(ScenarioThreads[1]), "UA")}

ScenarioScoreboard ==
  [c \in ALLOWED_CHANNEL_IDS |->
     IF c = LOGIC_CHANNEL_ID_MAIN
     THEN addQuestion(NoScoreboard, "UA", getYearFromTimestamp(ScenarioTs), ClockTimes[1]).pin
     ELSE NoScoreboard]

Scenario ==
  /\ now = 1
  /\ threads = ScenarioThreads
  /\ scoreboard = ScenarioScoreboard
  /\ prompts = ScenarioPrompts
  /\ modals = ScenarioModals
  /\ outbox = {}

ConcInit == Scenario /\ procs = <<>> /\ call = NoCall /\ NoPins

ProcIds == DOMAIN procs

ConcNext ==
  \/ \E p \in PromptIds : press_confirm_solve(p)
  \/ \E p \in PromptIds : press_confirm_private_solve(p)
  \/ \E u \in Users, i \in RoundIds : press_close_round(u, i)
  \/ \E md \in modals, q \in EditInputs : submit_edit_question_modal(md, q)
  \/ \E k \in ProcIds : ConfirmRead(k)
  \/ \E k \in ProcIds : ConfirmWrite(k)
  \/ \E k \in ProcIds : ScoreboardRead(k)
  \/ \E k \in ProcIds : ScoreboardWrite(k)
  \/ \E k \in ProcIds : ConfirmTail(k)
  \/ \E k \in ProcIds : CloseRead(k)
  \/ \E k \in ProcIds : CloseWrite(k)
  \/ \E k \in ProcIds : CloseTail(k)
  \/ \E k \in ProcIds : EditRead(k)
  \/ \E k \in ProcIds : EditWrite(k)
  \/ \E k \in ProcIds : EditTail(k)

ConcSpec == ConcInit /\ [][ConcNext /\ UNCHANGED <<call, pinned, scoreboardMessageCache, BOT_USER_ID>>]_vars

(* ---------------------- terminal statuses (C1) ------------------------- *)
(* C1: whatever the interleaving of confirm_solve, confirm_private_solve,   *)
(* close_round and edit_question_modal on a thread, once the control        *)
(* message holds SOLVED or CLOSED no later write changes its status.        *)
C1_SettledStatusStays ==
  [][threads' # threads
       => \A i \in RoundIds :
            StatusRead(RoundIn(threads, i)) \in {SOLVED, CLOSED}
              => StatusRead(RoundIn(threads', i)) = StatusRead(RoundIn(threads, i))
    ]_vars

(* ============================ the state codec ========================== *)
(* parseRoundState and formatRoundState applied to drawn inputs.           *)
TsInputs == {[sec |-> ClockTimes[1], n |-> 1]}
OptionalTexts == {<<"q1">>, <<>>}

(* RoundState values: question and answer each present or absent *)
RoundInputs ==
  LET base == {[version |-> "1", op |-> u, status |-> s, threadTs |-> ts, channelId |-> c] :
                 u \in Users, s \in RoundStatus, ts \in TsInputs, c \in ALLOWED_CHANNEL_IDS}
      withQuestion == base \cup {Spread(r, [question |-> q]) : r \in base, q \in OptionalTexts}
  IN withQuestion \cup {Spread(r, [answer |-> a]) : r \in withQuestion, a \in OptionalTexts}

Ws == [t |-> "ws", v |-> " "]
Other == [t |-> "other", v |-> "!"]
RBracket == [t |-> "rbracket", v |-> "]"]
LineHead == [t |-> "head", v |-> "1"]
Field(name, value) == [t |-> name, v |-> value]

StatusInputs == RoundStatus \cup {"DONE"}
Gaps == {<<Ws>>, <<Ws, Ws>>, <<>>}
Befores == {<<>>, <<Other>>, <<Other, Ws>>}
Afters == {<<>>, <<Ws, Other>>, <<Other>>, <<RBracket>>}
AnswerParts == {<<>>, <<Ws, Field("answer", "a1")>>}

(* legacy lines and texts around them *)
LineInputs ==
  {[k |-> "line",
    toks |-> before \o <<LineHead>> \o gap \o <<Field("op", "UA")>> \o <<Ws>>
               \o <<Field("status", s)>> \o <<Ws>> \o <<Field("threadTs", "1735689599.000001")>>
               \o <<Ws>> \o <<Field("channelId", LOGIC_CHANNEL_ID_MAIN)>> \o answer \o after] :
     before \in Befores, gap \in Gaps, s \in StatusInputs,
     answer \in AnswerParts, after \in Afters}

(* texts of other messages of the bot *)
OtherTexts == {[k |-> "notice", text |-> <<"closed">>], Base64([sec |-> 1, n |-> 1])}

CodecInit ==
  /\ now = 1
  /\ threads = <<>>
  /\ scoreboard = [c \in ALLOWED_CHANNEL_IDS |-> NoScoreboard]
  /\ prompts = <<>>
  /\ modals = {}
  /\ outbox = {}
  /\ procs = <<>>
  /\ NoPins
  /\ call \in {[NoCall EXCEPT !.pc = "round", !.round = r] : r \in RoundInputs}
         \cup {[NoCall EXCEPT !.pc = "text", !.text = t] : t \in LineInputs \cup OtherTexts}

(* formatRoundState(state) *)
apply_formatRoundState ==
  /\ call.pc = "round"
  /\ call' = [call EXCEPT !.pc = "text", !.text = formatRoundState(call.round)]
  /\ UNCHANGED <<now, threads, scoreboard, prompts, modals, outbox, procs, pinned,
               scoreboardMessageCache, BOT_USER_ID>>

(* parseRoundState(text) *)
apply_parseRoundState ==
  /\ call.pc = "text"
  /\ call' = [call EXCEPT !.pc = "parsed", !.parsed = parseRoundState(call.text)]
  /\ UNCHANGED <<now, threads, scoreboard, prompts, modals, outbox, procs, pinned,
               scoreboardMessageCache, BOT_USER_ID>>

CodecNext == apply_formatRoundState \/ apply_parseRoundState

CodecSpec == CodecInit /\ [][CodecNext]_vars

ExactLine(text) ==
  /\ text.k = "line"
  /\ text.toks # <<>>
  /\ MatchAt(text.toks, 1).found
  /\ MatchAt(text.toks, 1).to = Len(text.toks)

(* C12: a text that does not decode as an opaque token parses to a round    *)
(* only if it is exactly a legacy line with status OPEN, SOLVED or CLOSED;  *)
(* text before or after the line makes the parse fail.                      *)
C12_LegacyLineExactly ==
  (call.pc = "parsed" /\ call.round = Null /\ decodeRoundState(call.text) = Null)
    => (call.parsed # Null
          <=> /\ ExactLine(call.text)
              /\ call.text.toks[MatchAt(call.text.toks, 1).status].v \in RoundStatus)

(* ------------------------- the No press (C21) -------------------------- *)
CancelledText == "Cancelled - round remains open."

NotAcceptedText == "Your private answer was not accepted this time."

(* C21: a No press changes no thread message (control message, instruction  *)
(* message, question message) and not the scoreboard; it edits the DM of    *)
(* the press to the cancelled state and, for a private answer, sends the    *)
(* submitter one notice that the answer was not accepted.                   *)
C21_NoPressOnlyEditsTheDm ==
  [][(outbox = {} /\ \E x \in outbox' : x.type = "dm_update" /\ x.text = CancelledText)
       => \A p \in PromptIds :
            (cancel_solve(p) \/ cancel_private_solve(p))
              => /\ threads' = threads
                 /\ scoreboard' = scoreboard
                 /\ modals' = modals
                 /\ prompts' = [prompts EXCEPT ![p].view = [status |-> "CANCELLED"]]
                 /\ outbox' = {DmEdit(p, CancelledText)}
                                \cup IF prompts[p].kind = "private"
                                     THEN {Dm(prompts[p].payload.submitterId, NotAcceptedText)}
                                     ELSE {}
    ]_vars

(* No was just pressed on a private answer while another prompt is pending *)
C21_Witness ==
  \E p, q \in DOMAIN prompts :
    /\ prompts[p].kind = "private"
    /\ prompts[p].view.status = "CANCELLED"
    /\ prompts[q].view = Pending
    /\ outbox = {DmEdit(p, CancelledText), Dm(prompts[p].payload.submitterId, NotAcceptedText)}
    /\ StatusRead(RoundIn(threads, ThreadOf(threads, prompts[p].payload))) = OPEN

(* -------------------- admin commands, not admin (C22) ------------------- *)
OnlyAdminsText == "Sorry, only admins can use this command."

(* C22: setscore, addpoint and removepoint of a user who is not in the      *)
(* admin list are answered with the ephemeral rejection and leave both      *)
(* pinned messages of the scoreboard as they were.                          *)
C22_NotAdminRejected ==
  [][(outbox = {} /\ outbox' # {})
       => \A u \in Users \ ADMIN_USER_IDS, c \in SbChannels, ya \in YearArgs :
            /\ \A t \in Targets, n \in PointsArgs :
                 logic_setscore(u, c, t, n, ya)
                   => outbox' = {Respond(u, OnlyAdminsText)} /\ scoreboard' = scoreboard
            /\ \A t \in TargetArgs :
                 (logic_addpoint(u, c, t, ya) \/ logic_removepoint(u, c, t, ya))
                   => outbox' = {Respond(u, OnlyAdminsText)} /\ scoreboard' = scoreboard
    ]_vars

(* a user who is no admin was just turned away from a scoreboard that holds *)
(* a score                                                                  *)
C22_Witness ==
  /\ \E u \in Users \ ADMIN_USER_IDS : outbox = {Respond(u, OnlyAdminsText)}
  /\ \E c \in SbChannels, u \in Users, y \in Years : ScoreOf(scoreboard, c, u, y) = MaxScore

(* --------------------------- the start (C23) ---------------------------- *)
StartedText == "Puzzle posted and round started."

(* C23: a start by user A with question q that succeeds leaves a new thread *)
(* whose first reply decodes to the round OPEN of op A with question q and  *)
(* whose second reply is the instruction message showing OPEN; A's question *)
(* count of the thread's year is one more than before and no score changes. *)
C23_StartPostsOpenRound ==
  [][(outbox = {} /\ \E x \in outbox' : x.type = "respond" /\ x.text = StartedText)
       => \A u \in Users, c \in ALLOWED_CHANNEL_IDS, q \in QuestionInputs :
            logic_start(u, c, q)
              => LET i == Len(threads')
                     msgs == threads'[i].msgs
                     year == getYearFromTimestamp(threads'[i].threadTs)
                 IN /\ Len(threads') = Len(threads) + 1
                    /\ threads'[i].channelId = c
                    /\ Len(msgs) = 3
                    /\ msgs[2].user = Bot
                    /\ parseRoundState(msgs[2].text)
                         = [version |-> "1", op |-> u, status |-> OPEN,
                            threadTs |-> threads'[i].threadTs, channelId |-> c,
                            question |-> Trim(q)]
                    /\ Trim(q) # <<>>
                    /\ msgs[3].user = Bot
                    /\ msgs[3].text.k = "Round"
                    /\ msgs[3].text.status = OPEN
                    /\ msgs[3].text.op = u
                    /\ QuestionsOf(scoreboard', c, u, year) = QuestionsOf(scoreboard, c, u, year) + 1
                    /\ \A cell \in Cells :
                         cell # <<c, u, year>>
                           => QuestionsOf(scoreboard', cell[1], cell[2], cell[3])
                                = QuestionsOf(scoreboard, cell[1], cell[2], cell[3])
                    /\ SameScores(scoreboard, scoreboard')
    ]_vars

(* a round was just started after the turn of the year: the count is under *)
(* the year of the thread                                                   *)
C23_Witness ==
  /\ \E x \in outbox : x.type = "respond" /\ x.text = StartedText
  /\ now = Len(ClockTimes)
  /\ \E i \in DOMAIN threads :
       /\ Len(threads[i].msgs) = 3
       /\ StatusRead(RoundIn(threads, i)) = OPEN
       /\ QuestionsOf(scoreboard, threads[i].channelId, RoundIn(threads, i).state.op,
                      getYearFromTimestamp(threads[i].threadTs)) = 1
       /\ getYearFromTimestamp(threads[i].threadTs) = CurrentYear(ClockTimes[Len(ClockTimes)])

(* --------------------------- the reminder (C24) ------------------------- *)
(* a reply of a user was just handled: a message joined a thread and        *)
(* nothing was sent besides                                                 *)
Replied ==
  /\ outbox = {} /\ outbox' = {}
  /\ threads' # threads
  /\ Len(threads') = Len(threads)

(* the reply (u, t) joined thread i, followed by the reminder or not; the   *)
(* other messages, the other threads and the scoreboard are as before       *)
RepliedWith(i, u, t, reminded) ==
  LET posted == Append(threads[i].msgs, [user |-> u, text |-> UserText(t)]) IN
  /\ threads'[i].msgs = IF reminded THEN Append(posted, [user |-> Bot, text |-> HeadsUp])
                        ELSE posted
  /\ \A j \in DOMAIN threads : j # i => threads'[j] = threads[j]
  /\ RoundIn(threads', i) = RoundIn(threads, i)
  /\ scoreboard' = scoreboard

(* the text starts with one of the prefixes, white space and case aside *)
StartsWithGuessPrefix(t) ==
  Trim(t) # <<>> /\ Lower(Head(Trim(t))) \in {"my guess", "guess:", "answer:", "is it"}

(* C24 as stated: every reply of a user in a thread gets the reminder       *)
(* exactly when its text starts with a guess prefix and the round of the    *)
(* thread is found SOLVED, and changes neither round nor scoreboard.        *)
C24_ReminderIffGuessOnSolved ==
  [][Replied
       => \A u \in Users, i \in ThreadIds, t \in GuessInputs, st \in Subtypes :
            message(u, i, t, st)
              => RepliedWith(i, u, t, StartsWithGuessPrefix(t)
                                        /\ StatusRead(RoundIn(threads, i)) = SOLVED)
    ]_vars

(* C24: a reply of a user without a subtype gets the reminder exactly when  *)
(* its text starts with a guess prefix and the round of the thread is found *)
(* SOLVED; a reply with a subtype gets none; in no case does the handler    *)
(* change the round or the scoreboard.                                      *)
C24_ReminderIffPlainGuessOnSolved ==
  [][Replied
       => \A u \in Users, i \in ThreadIds, t \in GuessInputs, st \in Subtypes :
            message(u, i, t, st)
              => RepliedWith(i, u, t, /\ st = ""
                                      /\ StartsWithGuessPrefix(t)
                                      /\ StatusRead(RoundIn(threads, i)) = SOLVED)
    ]_vars

(* a guess was just reminded in a solved round *)
C24_Witness ==
  \E i \in DOMAIN threads :
    /\ StatusRead(RoundIn(threads, i)) = SOLVED
    /\ outbox = {}
    /\ threads[i].msgs[Len(threads[i].msgs)] = [user |-> Bot, text |-> HeadsUp]
    /\ threads[i].msgs[Len(threads[i].msgs) - 1].user # Bot
    /\ looksLikeGuess(threads[i].msgs[Len(threads[i].msgs) - 1].text.toks)

(* -------------------- the instruction message (C25) --------------------- *)
(* the instruction message of thread i shows the status of its round *)
InSync(ths, i) ==
  /\ RoundIn(ths, i) # Null
  /\ InstructionIn(ths, i) # Null
  /\ InstructionIn(ths, i).status = RoundIn(ths, i).state.status
  /\ InstructionIn(ths, i).op = RoundIn(ths, i).state.op

(* C25: with the handlers run one after another and every platform call     *)
(* succeeding, each step that starts, solves or closes a round leaves the   *)
(* instruction message of the thread showing the status of the control      *)
(* message, and a step that solves leaves it naming the credited user as    *)
(* the solver.                                                              *)
C25_InstructionInSync ==
  [][(outbox = {} /\ threads' # threads)
       => /\ \A i \in DOMAIN threads' : Started(threads', i) => InSync(threads', i)
          /\ \A p \in PromptIds :
               LET i == ThreadOf(threads, prompts[p].payload) IN
               (YesPressed(p) /\ StatusRead(RoundIn(threads, i)) = OPEN)
                 => /\ InstructionIn(threads', i).status = SOLVED
                    /\ InstructionIn(threads', i).solvedBy = <<Credited(prompts[p])>>
          /\ \A u \in Users, i \in RoundIds :
               (ClosePressed(u, i) /\ StatusRead(RoundIn(threads', i)) = CLOSED)
                 => /\ InstructionIn(threads', i).status = CLOSED
                    /\ InstructionIn(threads', i).solvedBy = <<>>
    ]_vars

(* a round was just solved: control message and instruction message say so, *)
(* and the instruction message names the user whose guess was accepted      *)
C25_Witness ==
  \E p \in DOMAIN prompts :
    LET i == ThreadOf(threads, prompts[p].payload) IN
    /\ DmEdit(p, ConfirmedText) \in outbox
    /\ prompts[p].kind = "solve"
    /\ StatusRead(RoundIn(threads, i)) = SOLVED
    /\ InstructionIn(threads, i).status = SOLVED
    /\ InstructionIn(threads, i).solvedBy = <<prompts[p].payload.guessAuthorId>>
    /\ prompts[p].payload.guessAuthorId # RoundIn(threads, i).state.op

(* ----------------------- a mutator throws (C27) ------------------------- *)
(* C27: an updateScoreboard whose mutator throws (addPoints below zero)     *)
(* throws and touches neither pinned message: no display message and no     *)
(* data message is created, pinned or edited by that call.                  *)
C27_ThrowTouchesNothing ==
  [][(outbox = {} /\ \E x \in outbox' : x.type = "throw")
       => \A c \in SbChannels, u \in Users, d \in Deltas, y \in Years :
            (call_addPoints(c, u, d, y) /\ ScoreOf(scoreboard, c, u, y) + d < 0)
              => /\ outbox' = {Thrown("Cannot set score to negative value.")}
                 /\ scoreboard'[c].data = scoreboard[c].data
                 /\ scoreboard'[c].display = scoreboard[c].display
    ]_vars

(* ========================= reading the stored data ===================== *)
(* getScoreboardData applied to drawn answers of pins.list, and to the     *)
(* listing left by storeScoreboardData.                                    *)
DataInputs ==
  {EmptyScoreboardData(ClockTimes[1]),
   setScoreFn(EmptyScoreboardData(ClockTimes[1]), "UA", 1, "2024"),
   addQuestionFn(EmptyScoreboardData(ClockTimes[2]), "UB", "2025")}

NotJson == [k |-> "plain", text |-> <<"oops">>]

(* ``` blocks: a payload of this key, or text with or without a colon *)
BlockInputs ==
  {encryptData(JSONstringify(d)) : d \in DataInputs}
    \cup {encryptData(NotJson)}
    \cup {[k |-> "noise", colon |-> c] : c \in BOOLEAN}

(* ```json blocks *)
JsonInputs == {JSONstringify(d) : d \in DataInputs} \cup {NotJson}

Marker == [k |-> "Scoreboard Data"]

TextInputs ==
  {Marker}
    \cup {Spread(Marker, [block |-> b]) : b \in BlockInputs}
    \cup {Spread(Marker, [json |-> j]) : j \in JsonInputs}
    \cup {Spread(Marker, [block |-> b, json |-> j]) : b \in BlockInputs, j \in JsonInputs}
    \cup {formatScoreboardBlocks(d) : d \in DataInputs}

(* pinned items: a file, a message of a user, messages of the bot *)
ItemInputs ==
  {[file |-> "F1"]}
    \cup {[message |-> [user |-> "UA", text |-> DataText(d)]] : d \in DataInputs}
    \cup {Pinned(text) : text \in TextInputs}

MaxPins == 2

ListInputs ==
  {[threw |-> TRUE]}
    \cup {[threw |-> FALSE, items |-> items] :
            items \in UNION {[1 .. n -> ItemInputs] : n \in 0 .. MaxPins}}

ReadInit ==
  /\ now = 1
  /\ threads = <<>>
  /\ scoreboard = [c \in ALLOWED_CHANNEL_IDS |-> NoScoreboard]
  /\ prompts = <<>>
  /\ modals = {}
  /\ outbox = {}
  /\ procs = <<>>
  /\ NoPins
  /\ call \in {[NoCall EXCEPT !.pc = "pins", !.pins = l] : l \in ListInputs}
         \cup {[NoCall EXCEPT !.pc = "data", !.data = d] : d \in DataInputs}

(* storeScoreboardData(channelId, data) on a channel with its display *)
apply_storeScoreboardData ==
  /\ call.pc = "data"
  /\ call' = [call EXCEPT
                !.pc = "pins",
                !.pins = PinsList(storeScoreboardData(
                           getOrCreateScoreboard(NoScoreboard, Time), call.data))]
  /\ UNCHANGED <<now, threads, scoreboard, prompts, modals, outbox, procs, pinned,
               scoreboardMessageCache, BOT_USER_ID>>

(* getScoreboardData(channelId) *)
apply_getScoreboardData ==
  /\ call.pc = "pins"
  /\ call' = [call EXCEPT !.pc = "read", !.parsed = getScoreboardData(call.pins, Time)]
  /\ UNCHANGED <<now, threads, scoreboard, prompts, modals, outbox, procs, pinned,
               scoreboardMessageCache, BOT_USER_ID>>

ReadNext == apply_storeScoreboardData \/ apply_getScoreboardData

ReadSpec == ReadInit /\ [][ReadNext]_vars

(* a message text whose payload can be read, and the payload *)
Decryptable(text) ==
  Has(text, "block") /\ text.block.k = "enc" /\ ~JSONparse(text.block.of).threw
LegacyReadable(text) == Has(text, "json") /\ ~JSONparse(text.json).threw
Readable(item) ==
  IsBotMessage(item)
    /\ (Decryptable(item.message.text) \/ LegacyReadable(item.message.text))
Payload(text) ==
  IF Decryptable(text) THEN JSONparse(text.block.of).value ELSE JSONparse(text.json).value
FirstReadable(items) ==
  CHOOSE i \in DOMAIN items : Readable(items[i]) /\ \A j \in 1 .. i - 1 : ~Readable(items[j])

(* C28: getScoreboardData always returns a value: empty data when the      *)
(* listing of the pins fails, when no message of the bot is pinned with    *)
(* data, and when no payload decrypts or parses as the old JSON block;     *)
(* otherwise the decrypted payload where it decrypts, else the old block.  *)
C28_ReadNeverThrows ==
  call.pc = "read" =>
    IF call.pins.threw THEN call.parsed = EmptyScoreboardData(Time)
    ELSE IF \A i \in DOMAIN call.pins.items : ~Readable(call.pins.items[i])
    THEN call.parsed = EmptyScoreboardData(Time)
    ELSE call.parsed = Payload(call.pins.items[FirstReadable(call.pins.items)].message.text)

(* a garbled encrypted block beside a readable old block: the old one is read *)
C28_Witness ==
  /\ call.pc = "read"
  /\ ~call.pins.threw
  /\ Len(call.pins.items) = 1
  /\ IsBotMessage(call.pins.items[1])
  /\ ~Decryptable(call.pins.items[1].message.text)
  /\ Has(call.pins.items[1].message.text, "block")
  /\ LegacyReadable(call.pins.items[1].message.text)
  /\ call.parsed = JSONparse(call.pins.items[1].message.text.json).value
  /\ call.parsed # EmptyScoreboardData(Time)

(* ===================== handlers with failing calls ===================== *)
(* One handler at a time, started from Scenario; every step is one call of *)
(* the platform, which succeeds or fails.  failed holds the calls of the   *)
(* handler that failed so far.                                             *)
Attempt(h, arg) ==
  [h |-> h, pc |-> "read", arg |-> arg, roundInfo |-> Null, currentData |-> Null,
   failed |-> {}]

Idle == \A k \in DOMAIN procs : procs[k].pc = "done"

Start(h, arg) ==
  /\ Idle
  /\ Len(procs) < MaxInFlight
  /\ procs' = Append(procs, Attempt(h, arg))
  /\ UNCHANGED <<now, threads, scoreboard, prompts, modals, outbox>>

(* where the handler stands after a call: a failed call is recorded *)
After(k, ok, name, pc) ==
  [procs EXCEPT ![k].pc = pc,
                ![k].failed = IF ok THEN @ ELSE @ \cup {name}]

(* a call whose failure is thrown to the catch of the handler *)
OrCatch(ok, pc) == IF ok THEN pc ELSE "catch"

(* findRoundControlMessage: a failed conversations.replies gives null *)
ReadRound(k, ok) ==
  IF ok THEN findRoundControlMessage(threads, ChannelOf(k), ThreadTsOf(k)) ELSE Null

(* confirm: the fresh read and the anti-double-confirm guard *)
confirm_read(k, ok) ==
  /\ At(k, ConfirmHandlers, "read")
  /\ procs' = [After(k, ok, "conversations.replies",
                     IF AlreadySettled(ReadRound(k, ok)) THEN "already" ELSE "write")
                 EXCEPT ![k].roundInfo = ReadRound(k, ok)]
  /\ UNCHANGED <<now, threads, scoreboard, prompts, modals, outbox>>

(* confirm: the DM says the round was already settled *)
confirm_already(k, ok) ==
  LET p == procs[k].arg.p IN
  /\ At(k, ConfirmHandlers, "already")
  /\ prompts' = IF ok THEN updateDmMessageStatus(prompts, prompts[p].payload.dmMessageTs,
                                                 AlreadyText(procs[k].roundInfo), "CANCELLED")
                ELSE prompts
  /\ outbox' = IF ok THEN outbox \cup {DmEdit(p, AlreadyText(procs[k].roundInfo))} ELSE outbox
  /\ procs' = After(k, ok, "chat.update dm", OrCatch(ok, "done"))
  /\ UNCHANGED <<now, threads, scoreboard, modals>>

(* confirm: chat.update of the control message *)
confirm_write(k, ok) ==
  /\ At(k, ConfirmHandlers, "write")
  /\ threads' = IF ok THEN WriteSolved(threads, prompts[procs[k].arg.p].payload,
                                       procs[k].roundInfo)
                ELSE threads
  /\ procs' = After(k, ok, "chat.update control", OrCatch(ok, "locate"))
  /\ UNCHANGED <<now, scoreboard, prompts, modals, outbox>>

ScoreboardCallers == ConfirmHandlers \cup {"close_round"}

(* updateScoreboard: getOrCreateScoreboard rethrows *)
scoreboard_locate(k, ok) ==
  LET c == ChannelOf(k) IN
  /\ At(k, ScoreboardCallers, "locate")
  /\ scoreboard' = IF ok THEN [scoreboard EXCEPT ![c] = getOrCreateScoreboard(@, Time)]
                   ELSE scoreboard
  /\ procs' = After(k, ok, "getOrCreateScoreboard", OrCatch(ok, "sbread"))
  /\ UNCHANGED <<now, threads, prompts, modals, outbox>>

(* updateScoreboard: getScoreboardData answers empty data when it fails *)
scoreboard_read(k, ok) ==
  LET pins == IF ok THEN PinsList(scoreboard[ChannelOf(k)]) ELSE [threw |-> TRUE] IN
  /\ At(k, ScoreboardCallers, "sbread")
  /\ procs' = [After(k, ok, "pins.list", "display")
                 EXCEPT ![k].currentData = getScoreboardData(pins, Time)]
  /\ UNCHANGED <<now, threads, scoreboard, prompts, modals, outbox>>

Stamped(k) == [Mutated(k).data EXCEPT !.lastUpdated = Time]

(* updateScoreboard: the mutator, then chat.update of the display message *)
scoreboard_display(k, ok) ==
  LET c == ChannelOf(k) IN
  /\ At(k, ScoreboardCallers, "display")
  /\ ~Mutated(k).threw
  /\ scoreboard' = IF ok THEN [scoreboard EXCEPT
                                 ![c].display = formatScoreboardBlocks(Stamped(k))]
                   ELSE scoreboard
  /\ procs' = After(k, ok, "chat.update display", OrCatch(ok, "store"))
  /\ UNCHANGED <<now, threads, prompts, modals, outbox>>

(* updateScoreboard: storeScoreboardData keeps its failure to itself *)
scoreboard_store(k, ok) ==
  LET c == ChannelOf(k) IN
  /\ At(k, ScoreboardCallers, "store")
  /\ scoreboard' = IF ok THEN [scoreboard EXCEPT ![c] = storeScoreboardData(@, Stamped(k))]
                   ELSE scoreboard
  /\ procs' = After(k, ok, "storeScoreboardData",
                    IF procs[k].h = "close_round" THEN "write" ELSE "notice")
  /\ UNCHANGED <<now, threads, prompts, modals, outbox>>

(* confirm: chat.postMessage of the notice in the thread *)
confirm_notice(k, ok) ==
  LET p == procs[k].arg.p
      data == prompts[p].payload
  IN
  /\ At(k, ConfirmHandlers, "notice")
  /\ threads' = IF ok THEN ChatPostReply(threads, data.channelId, data.threadTs,
                                         [k |-> SolvedNotice(prompts[p]),
                                          who |-> Credited(prompts[p])])
                ELSE threads
  /\ procs' = After(k, ok, "chat.postMessage", OrCatch(ok, "root"))
  /\ UNCHANGED <<now, scoreboard, prompts, modals, outbox>>

(* confirm: updateRootMessageButton keeps its failure to itself *)
confirm_root(k, ok) ==
  LET data == prompts[procs[k].arg.p].payload IN
  /\ At(k, ConfirmHandlers, "root")
  /\ threads' = IF ok /\ data.answerText # <<>>
                THEN updateRootMessageButton(threads, data.channelId, data.threadTs,
                                             data.answerText)
                ELSE threads
  /\ procs' = After(k, ok, "chat.update root", "instruction")
  /\ UNCHANGED <<now, scoreboard, prompts, modals, outbox>>

(* findAndUpdateInstructionMessage keeps its failure to itself *)
confirm_instruction(k, ok) ==
  LET p == procs[k].arg.p
      data == prompts[p].payload
  IN
  /\ At(k, ConfirmHandlers, "instruction")
  /\ threads' = IF ok
                THEN findAndUpdateInstructionMessage(
                       threads, data.channelId, data.threadTs,
                       SolvedState(procs[k].roundInfo, data.answerText),
                       <<Credited(prompts[p])>>)
                ELSE threads
  /\ procs' = After(k, ok, "chat.update instruction", "dm")
  /\ UNCHANGED <<now, scoreboard, prompts, modals, outbox>>

(* confirm: updateDmMessageStatus to the confirmed state *)
confirm_dm(k, ok) ==
  LET p == procs[k].arg.p IN
  /\ At(k, ConfirmHandlers, "dm")
  /\ prompts' = IF ok THEN updateDmMessageStatus(prompts, prompts[p].payload.dmMessageTs,
                                                 ConfirmedText, "CONFIRMED")
                ELSE prompts
  /\ outbox' = IF ok THEN outbox \cup {DmEdit(p, ConfirmedText)} ELSE outbox
  /\ procs' = After(k, ok, "chat.update dm", OrCatch(ok, "summary"))
  /\ UNCHANGED <<now, threads, scoreboard, modals>>

SummaryText == "Congratulations! You solved the puzzle!"

(* fault: the failure of the summary is thrown to the handler *)
sendWinnerSummaryThrows(winnerId, ok) ==
  [threw |-> ~ok, out |-> IF ok THEN {Dm(winnerId, SummaryText)} ELSE {}]

(* sendWinnerSummary: the whole body is inside a try, the catch only logs *)
sendWinnerSummary(winnerId, ok) ==
  [threw |-> FALSE, out |-> IF ok THEN {Dm(winnerId, SummaryText)} ELSE {}]

(* confirm: the summary DM to the winner *)
confirm_summary(k, ok) ==
  LET sent == sendWinnerSummary(Credited(prompts[procs[k].arg.p]), ok) IN
  /\ At(k, ConfirmHandlers, "summary")
  /\ outbox' = outbox \cup sent.out
  /\ procs' = After(k, ok, "sendWinnerSummary", IF sent.threw THEN "catch" ELSE "done")
  /\ UNCHANGED <<now, threads, scoreboard, prompts, modals>>

ErrorSolvingText == "Error solving round. Please try again."

(* confirm: the catch, a best-effort edit of the DM *)
confirm_catch(k, ok) ==
  LET p == procs[k].arg.p IN
  /\ At(k, ConfirmHandlers, "catch")
  /\ prompts' = IF ok THEN updateDmMessageStatus(prompts, prompts[p].payload.dmMessageTs,
                                                 ErrorSolvingText, "CANCELLED")
                ELSE prompts
  /\ outbox' = IF ok THEN outbox \cup {DmEdit(p, ErrorSolvingText)} ELSE outbox
  /\ procs' = After(k, ok, "chat.update dm", "done")
  /\ UNCHANGED <<now, threads, scoreboard, modals>>

(* close: validateOpAndRound on what the read gave *)
close_read(k, ok) ==
  LET userId == procs[k].arg.userId
      validation == validateOpAndRound(IF ok THEN threads ELSE <<>>, userId, ChannelOf(k),
                                       ThreadTsOf(k),
                                       ButtonData(threads[procs[k].arg.i]).op, "close")
  IN
  /\ At(k, {"close_round"}, "read")
  /\ outbox' = IF validation.error # ""
               THEN outbox \cup {Ephemeral(ChannelOf(k), userId, validation.text)}
               ELSE outbox
  /\ procs' = [After(k, ok, "conversations.replies",
                     IF validation.error # "" THEN "done"
                     ELSE IF validation.roundInfo.state.status = OPEN THEN "locate"
                     ELSE "write")
                 EXCEPT ![k].roundInfo = validation.roundInfo]
  /\ UNCHANGED <<now, threads, scoreboard, prompts, modals>>

(* close: chat.update of the control message *)
close_write(k, ok) ==
  /\ At(k, {"close_round"}, "write")
  /\ threads' = IF ok THEN WriteClosed(threads, ChannelOf(k), ThreadTsOf(k), procs[k].roundInfo)
                ELSE threads
  /\ procs' = After(k, ok, "chat.update control", OrCatch(ok, "root"))
  /\ UNCHANGED <<now, scoreboard, prompts, modals, outbox>>

(* close: updateRootMessageClosed keeps its failure to itself *)
close_root(k, ok) ==
  /\ At(k, {"close_round"}, "root")
  /\ threads' = IF ok THEN updateRootMessageClosed(threads, ChannelOf(k), ThreadTsOf(k),
                                                   procs[k].arg.userId)
                ELSE threads
  /\ procs' = After(k, ok, "chat.update root", "instruction")
  /\ UNCHANGED <<now, scoreboard, prompts, modals, outbox>>

close_instruction(k, ok) ==
  /\ At(k, {"close_round"}, "instruction")
  /\ threads' = IF ok
                THEN findAndUpdateInstructionMessage(threads, ChannelOf(k), ThreadTsOf(k),
                                                     ClosedState(procs[k].roundInfo), <<>>)
                ELSE threads
  /\ procs' = After(k, ok, "chat.update instruction", "notice")
  /\ UNCHANGED <<now, scoreboard, prompts, modals, outbox>>

(* close: chat.postMessage of the notice in the thread *)
close_notice(k, ok) ==
  /\ At(k, {"close_round"}, "notice")
  /\ threads' = IF ok THEN ChatPostReply(threads, ChannelOf(k), ThreadTsOf(k),
                                         [k |-> "Round closed by OP."])
                ELSE threads
  /\ procs' = After(k, ok, "chat.postMessage", OrCatch(ok, "ephemeral"))
  /\ UNCHANGED <<now, scoreboard, prompts, modals, outbox>>

(* close: the ephemeral "Round closed." *)
close_ephemeral(k, ok) ==
  /\ At(k, {"close_round"}, "ephemeral")
  /\ outbox' = IF ok THEN outbox \cup {Ephemeral(ChannelOf(k), procs[k].arg.userId,
                                                 "Round closed.")}
               ELSE outbox
  /\ procs' = After(k, ok, "chat.postEphemeral", OrCatch(ok, "done"))
  /\ UNCHANGED <<now, threads, scoreboard, prompts, modals>>

(* close: the catch, a best-effort ephemeral *)
close_catch(k, ok) ==
  /\ At(k, {"close_round"}, "catch")
  /\ outbox' = IF ok THEN outbox \cup {Ephemeral(ChannelOf(k), procs[k].arg.userId,
                                                 "Error closing round.")}
               ELSE outbox
  /\ procs' = After(k, ok, "chat.postEphemeral", "done")
  /\ UNCHANGED <<now, threads, scoreboard, prompts, modals>>

FailInit == Scenario /\ procs = <<>> /\ call = NoCall /\ NoPins

FailNext ==
  \/ \E p \in PromptIds : prompts[p].kind = "solve" /\ Start("confirm_solve", [p |-> p])
  \/ \E p \in PromptIds : prompts[p].kind = "private"
                            /\ Start("confirm_private_solve", [p |-> p])
  \/ \E u \in Users, i \in RoundIds : Start("close_round", [userId |-> u, i |-> i])
  \/ \E k \in ProcIds, ok \in BOOLEAN : confirm_read(k, ok)
  \/ \E k \in ProcIds, ok \in BOOLEAN : confirm_already(k, ok)
  \/ \E k \in ProcIds, ok \in BOOLEAN : confirm_write(k, ok)
  \/ \E k \in ProcIds, ok \in BOOLEAN : scoreboard_locate(k, ok)
  \/ \E k \in ProcIds, ok \in BOOLEAN : scoreboard_read(k, ok)
  \/ \E k \in ProcIds, ok \in BOOLEAN : scoreboard_display(k, ok)
  \/ \E k \in ProcIds, ok \in BOOLEAN : scoreboard_store(k, ok)
  \/ \E k \in ProcIds, ok \in BOOLEAN : confirm_notice(k, ok)
  \/ \E k \in ProcIds, ok \in BOOLEAN : confirm_root(k, ok)
  \/ \E k \in ProcIds, ok \in BOOLEAN : confirm_instruction(k, ok)
  \/ \E k \in ProcIds, ok \in BOOLEAN : confirm_dm(k, ok)
  \/ \E k \in ProcIds, ok \in BOOLEAN : confirm_summary(k, ok)
  \/ \E k \in ProcIds, ok \in BOOLEAN : confirm_catch(k, ok)
  \/ \E k \in ProcIds, ok \in BOOLEAN : close_read(k, ok)
  \/ \E k \in ProcIds, ok \in BOOLEAN : close_write(k, ok)
  \/ \E k \in ProcIds, ok \in BOOLEAN : close_root(k, ok)
  \/ \E k \in ProcIds, ok \in BOOLEAN : close_instruction(k, ok)
  \/ \E k \in ProcIds, ok \in BOOLEAN : close_notice(k, ok)
  \/ \E k \in ProcIds, ok \in BOOLEAN : close_ephemeral(k, ok)
  \/ \E k \in ProcIds, ok \in BOOLEAN : close_catch(k, ok)

FailSpec == FailInit /\ [][FailNext /\ UNCHANGED <<call, pinned, scoreboardMessageCache, BOT_USER_ID>>]_vars

(* the round of the scenario and its cells of the scoreboard *)
ScenarioStatus == StatusRead(RoundIn(threads, 1))
ScenarioYear == getYearFromTimestamp(ScenarioTs)
PointsOfSolver == ScoreOf(scoreboard, LOGIC_CHANNEL_ID_MAIN, "UB", ScenarioYear)
QuestionsOfOp == QuestionsOf(scoreboard, LOGIC_CHANNEL_ID_MAIN, "UA", ScenarioYear)

(* C29: when a call of the store fails during a solve or a close, no       *)
(* state in which every handler has ended has the control message SOLVED   *)
(* and no point recorded, and none after a close has the question count of *)
(* the OP taken back while the control message still says OPEN.            *)
C29_AbortLeavesInSync ==
  procs # <<>> /\ Idle =>
    /\ ScenarioStatus = SOLVED => PointsOfSolver >= 1
    /\ QuestionsOfOp = 0 /\ (\E k \in ProcIds : procs[k].h = "close_round")
         => ScenarioStatus # OPEN

(* C30: a step of the confirm handler in which sending the summary fails   *)
(* ends the handler and changes nothing: the round stays SOLVED, the DM of *)
(* the OP stays confirmed, nothing more is sent or edited, and the         *)
(* point is recorded when no earlier call of the handler failed.           *)
C30_SummaryFailureSwallowed ==
  [][\A k \in ProcIds :
       At(k, ConfirmHandlers, "summary") /\ procs'[k].pc # "summary"
         /\ "sendWinnerSummary" \in procs'[k].failed
       => /\ procs'[k].pc = "done"
          /\ UNCHANGED <<threads, scoreboard, prompts, outbox>>
          /\ prompts'[procs[k].arg.p].view = [status |-> "CONFIRMED"]
          /\ procs[k].failed \subseteq {"chat.update root", "chat.update instruction"}
               => /\ StatusRead(RoundIn(threads', 1)) = SOLVED
                  /\ ScoreOf(scoreboard', LOGIC_CHANNEL_ID_MAIN, "UB", ScenarioYear) >= 1
    ]_vars

C30_Witness ==
  \E k \in ProcIds :
    /\ procs[k].h \in ConfirmHandlers
    /\ procs[k].pc = "done"
    /\ procs[k].failed = {"sendWinnerSummary"}
    /\ ScenarioStatus = SOLVED
    /\ PointsOfSolver = 1
    /\ prompts[procs[k].arg.p].view = [status |-> "CONFIRMED"]
    /\ Dm("UB", SummaryText) \notin outbox

(* ==================== getOrCreateScoreboard, call by call =============== *)
(* Callers of getOrCreateScoreboard in the main channel, each between two  *)
(* of its awaits.  pinned holds the pinned messages of the bot with their  *)
(* ts; a larger ts is a later message.                                     *)
DisplayMessage(ts) == [ts |-> ts, header |-> "Scoreboard"]
DataMessage(ts) == [ts |-> ts, header |-> ""]

(* what is pinned when the process starts *)
PinnedInputs == SUBSET {DisplayMessage(1), DataMessage(2), DisplayMessage(3)}

(* hasScoreboardHeader *)
Displays(items) == {item.ts : item \in {x \in items : x.header = "Scoreboard"}}

Largest(S) == CHOOSE x \in S : \A y \in S : y <= x

RECURSIVE Ascending(_)
Ascending(S) == IF S = {} THEN <<>> ELSE <<Smallest(S)>> \o Ascending(S \ {Smallest(S)})

RECURSIVE Descending(_)
Descending(S) == IF S = {} THEN <<>> ELSE <<Largest(S)>> \o Descending(S \ {Largest(S)})

(* the order of pins.items is the platform's: oldest first or newest first *)
ListOrders == {"oldest first", "newest first"}

(* existingScoreboards: the display messages in the order of the listing *)
ExistingScoreboards(items, order) ==
  IF order = "oldest first" THEN Ascending(Displays(items)) ELSE Descending(Displays(items))

Caller ==
  [pc |-> "idle", before |-> {}, existingScoreboards |-> <<>>, i |-> 1, ts |-> 0,
   result |-> 0, alone |-> TRUE, missed |-> FALSE]

InFlight(k) == procs[k].pc \notin {"idle", "returned"}

PinInit ==
  /\ now = 1
  /\ threads = <<>>
  /\ scoreboard = [c \in ALLOWED_CHANNEL_IDS |-> NoScoreboard]
  /\ prompts = <<>>
  /\ modals = {}
  /\ outbox = {}
  /\ call = NoCall
  /\ procs = [k \in 1 .. MaxInFlight |-> Caller]
  /\ pinned \in PinnedInputs
  /\ scoreboardMessageCache = EmptyObj
  /\ BOT_USER_ID = Bot

(* a call begins; a call that runs beside another is not alone *)
call_getOrCreateScoreboard(k) ==
  /\ ~InFlight(k)
  /\ procs' = [j \in DOMAIN procs |->
                 IF j = k
                 THEN [Caller EXCEPT !.pc = "cache", !.before = Displays(pinned),
                                     !.alone = \A other \in DOMAIN procs : ~InFlight(other)]
                 ELSE IF InFlight(j) THEN [procs[j] EXCEPT !.alone = FALSE]
                 ELSE procs[j]]
  /\ UNCHANGED <<pinned, scoreboardMessageCache>>

(* Check cache first: a cached ts is verified and returned *)
verify_cache(k, ok) ==
  /\ procs[k].pc = "cache"
  /\ IF Has(scoreboardMessageCache, LOGIC_CHANNEL_ID_MAIN)
     THEN IF ok
          THEN /\ procs' = [procs EXCEPT
                              ![k].pc = "returned",
                              ![k].result = scoreboardMessageCache[LOGIC_CHANNEL_ID_MAIN]]
               /\ UNCHANGED scoreboardMessageCache
          ELSE /\ procs' = [procs EXCEPT ![k].pc = "list", ![k].missed = TRUE]
               /\ scoreboardMessageCache' = Del(scoreboardMessageCache, LOGIC_CHANNEL_ID_MAIN)
     ELSE /\ ok
          /\ procs' = [procs EXCEPT ![k].pc = "list"]
          /\ UNCHANGED scoreboardMessageCache
  /\ UNCHANGED pinned

(* pins.list and the filter on the header block *)
pins_list(k, order) ==
  /\ procs[k].pc = "list"
  /\ procs' = [procs EXCEPT
                 ![k].existingScoreboards = ExistingScoreboards(pinned, order),
                 ![k].i = 2,
                 ![k].pc = IF Displays(pinned) = {} THEN "post" ELSE "unpin"]
  /\ UNCHANGED <<pinned, scoreboardMessageCache>>

(* pins.remove of one duplicate; its failure is logged and passed over *)
pins_remove(k, ok) ==
  /\ procs[k].pc = "unpin"
  /\ procs[k].i <= Len(procs[k].existingScoreboards)
  /\ pinned' = IF ok
               THEN {item \in pinned : item.ts # procs[k].existingScoreboards[procs[k].i]}
               ELSE pinned
  /\ procs' = [procs EXCEPT ![k].i = @ + 1, ![k].missed = @ \/ ~ok]
  /\ UNCHANGED scoreboardMessageCache

(* the first of existingScoreboards is cached and returned *)
return_primary(k) ==
  /\ procs[k].pc = "unpin"
  /\ procs[k].i > Len(procs[k].existingScoreboards)
  /\ scoreboardMessageCache' =
       Put(scoreboardMessageCache, LOGIC_CHANNEL_ID_MAIN, procs[k].existingScoreboards[1])
  /\ procs' = [procs EXCEPT ![k].pc = "returned",
                            ![k].result = procs[k].existingScoreboards[1]]
  /\ UNCHANGED pinned

(* the ts chat.postMessage gives: later than every message so far *)
FreshTs == 1 + Largest({3} \cup {item.ts : item \in pinned}
                          \cup {procs[k].ts : k \in DOMAIN procs})

(* chat.postMessage of a display message drawn from empty data *)
chat_postMessage(k) ==
  /\ procs[k].pc = "post"
  /\ procs' = [procs EXCEPT ![k].pc = "pin", ![k].ts = FreshTs]
  /\ UNCHANGED <<pinned, scoreboardMessageCache>>

(* pins.add, then the new ts is cached and returned *)
pins_add(k) ==
  /\ procs[k].pc = "pin"
  /\ pinned' = pinned \cup {DisplayMessage(procs[k].ts)}
  /\ scoreboardMessageCache' =
       Put(scoreboardMessageCache, LOGIC_CHANNEL_ID_MAIN, procs[k].ts)
  /\ procs' = [procs EXCEPT ![k].pc = "returned", ![k].result = procs[k].ts]

(* the process is started again: the cache is empty, no call is in flight *)
Restart ==
  /\ \A k \in DOMAIN procs : ~InFlight(k)
  /\ scoreboardMessageCache # EmptyObj
  /\ scoreboardMessageCache' = EmptyObj
  /\ procs' = [k \in DOMAIN procs |-> Caller]
  /\ UNCHANGED pinned

PinNext ==
  \/ \E k \in ProcIds : call_getOrCreateScoreboard(k)
  \/ \E k \in ProcIds, ok \in BOOLEAN : verify_cache(k, ok)
  \/ \E k \in ProcIds, order \in ListOrders : pins_list(k, order)
  \/ \E k \in ProcIds, ok \in BOOLEAN : pins_remove(k, ok)
  \/ \E k \in ProcIds : return_primary(k)
  \/ \E k \in ProcIds : chat_postMessage(k)
  \/ \E k \in ProcIds : pins_add(k)
  \/ Restart

PinSpec ==
  PinInit /\ [][PinNext /\ UNCHANGED <<now, threads, scoreboard, prompts, modals,
                                       outbox, call, BOT_USER_ID>>]_vars

(* C26: when a call of getOrCreateScoreboard that ran beside no other call *)
(* has returned, at most one display message is pinned, and when several   *)
(* were pinned before the call the one returned is the earliest of them;   *)
(* so the duplicates of two calls that ran together are gone after a       *)
(* later call.                                                             *)
C26_OnePinnedEarliestKept ==
  \A k \in ProcIds :
    procs[k].pc = "returned" /\ procs[k].alone /\ (\A j \in ProcIds : ~InFlight(j))
      => /\ Cardinality(Displays(pinned)) <= 1
         /\ Cardinality(procs[k].before) > 1 => procs[k].result = Smallest(procs[k].before)

(* ------------------- the double-confirm window (C31) -------------------- *)
Passed(k) == procs[k].h \in ConfirmHandlers /\ procs[k].roundInfo # Null

(* C31: the re-check of a Yes press looks at the control message only: a   *)
(* press handled while the control message says OPEN passes, also when     *)
(* another confirm handler has passed and not yet written SOLVED, and each *)
(* handler that passed adds one point to what it read from the scoreboard. *)
C31_RecheckLeavesTheWindow ==
  [][\A k \in ProcIds :
       /\ (At(k, ConfirmHandlers, "read") /\ procs'[k].pc # "read"
             /\ StatusRead(RoundIn(threads, 1)) = OPEN)
            => /\ procs'[k].pc = "write"
               /\ procs'[k].roundInfo.state.status = OPEN
       /\ (At(k, ConfirmHandlers, "sbwrite") /\ procs'[k].pc # "sbwrite")
            => ScoreOf(scoreboard', LOGIC_CHANNEL_ID_MAIN, Credited(prompts[procs[k].arg.p]),
                       getYearFromTimestamp(ScenarioTs))
                 = 1 + OrZero(WithYear(procs[k].currentData.scoresByYear,
                                       getYearFromTimestamp(ScenarioTs))
                                [getYearFromTimestamp(ScenarioTs)],
                              Credited(prompts[procs[k].arg.p]))
    ]_vars

(* both presses passed the re-check and the one round gave two points *)
C31_Witness ==
  /\ Len(procs) = 2
  /\ \A k \in ProcIds : Passed(k) /\ procs[k].pc = "done"
                          /\ procs[k].roundInfo.state.status = OPEN
  /\ procs[1].arg.p # procs[2].arg.p
  /\ Cardinality({i \in RoundIds : StatusRead(RoundIn(threads, i)) = SOLVED}) = 1
  /\ ScoreOf(scoreboard, LOGIC_CHANNEL_ID_MAIN, "UB", getYearFromTimestamp(ScenarioTs)) = 2

(* ------------------ no point to the round's own OP (C32) ---------------- *)
(* C32: outside the test channel every step that makes a round SOLVED      *)
(* credits a user other than the OP of the round.                          *)
C32_SolverIsNotTheOp ==
  [][threads' # threads
       => \A i \in DOMAIN threads :
            (/\ threads[i].channelId # LOGIC_CHANNEL_ID_TEST
             /\ StatusRead(RoundIn(threads, i)) = OPEN
             /\ StatusRead(RoundIn(threads', i)) = SOLVED)
              => InstructionIn(threads', i).solvedBy # <<RoundIn(threads', i).state.op>>
    ]_vars

(* -------------- a degraded read is not written back (C33) --------------- *)
(* C33: a failed read of the data inside updateScoreboard destroys nothing: *)
(* while only confirm handlers have run, whose mutator touches the score of *)
(* the solver alone, the question count of the OP keeps its stored value.   *)
C33_UntouchedEntriesSurvive ==
  (\A k \in ProcIds : procs[k].h \in ConfirmHandlers) => QuestionsOfOp = 1

(* ======================= two rounds, two handlers ====================== *)
(* Two OPEN rounds of UA in the main channel, a guess of UB in each, and   *)
(* the prompt for each guess: the state after two starts, two replies and  *)
(* two reactions of UA.  Handlers run split at their awaits.               *)
SecondTs == [sec |-> ClockTimes[1], n |-> 2]

PairThreads ==
  PostedReply(
    PostRound(PostRoot(ScenarioThreads, "UA", LOGIC_CHANNEL_ID_MAIN, <<"q2">>, SecondTs),
              "UA", LOGIC_CHANNEL_ID_MAIN, <<"q2">>, SecondTs),
    2, "UB", <<"guess:", " ", "a2">>)

PairPrompts ==
  <<SolvePrompt(SolvePayload(PairThreads, PairThreads[1], Len(PairThreads[1].msgs),
                             findRoundControlMessage(PairThreads, LOGIC_CHANNEL_ID_MAIN,
                                                     ScenarioTs), 1)),
    SolvePrompt(SolvePayload(PairThreads, PairThreads[2], Len(PairThreads[2].msgs),
                             findRoundControlMessage(PairThreads, LOGIC_CHANNEL_ID_MAIN,
                                                     SecondTs), 2))>>

PairScoreboard ==
  [ScenarioScoreboard EXCEPT
     ![LOGIC_CHANNEL_ID_MAIN] =
       addQuestion(@, "UA", getYearFromTimestamp(SecondTs), ClockTimes[1]).pin]

PairInit ==
  /\ now = 1
  /\ threads = PairThreads
  /\ scoreboard = PairScoreboard
  /\ prompts = PairPrompts
  /\ modals = {}
  /\ outbox = {}
  /\ procs = <<>>
  /\ call = NoCall
  /\ NoPins

PairNext ==
  \/ \E p \in PromptIds : press_confirm_solve(p)
  \/ \E u \in Users, i \in DOMAIN threads : press_close_round(u, i)
  \/ \E k \in ProcIds : ConfirmRead(k)
  \/ \E k \in ProcIds : ConfirmWrite(k)
  \/ \E k \in ProcIds : ScoreboardRead(k)
  \/ \E k \in ProcIds : ScoreboardWrite(k)
  \/ \E k \in ProcIds : ConfirmTail(k)
  \/ \E k \in ProcIds : CloseRead(k)
  \/ \E k \in ProcIds : CloseWrite(k)
  \/ \E k \in ProcIds : CloseTail(k)

PairSpec ==
  PairInit /\ [][PairNext /\ UNCHANGED <<call, pinned, scoreboardMessageCache, BOT_USER_ID>>]_vars

AllDone == procs # <<>> /\ \A k \in ProcIds : procs[k].pc = "done"

(* C34: two confirmations of different rounds that run together both take *)
(* effect: when both handlers have ended, the solver of the two rounds has *)
(* two points.                                                             *)
C34_BothUpdatesTakeEffect ==
  (/\ AllDone
   /\ Len(procs) = 2
   /\ \A k \in ProcIds : Passed(k)
   /\ procs[1].arg.p # procs[2].arg.p)
    => ScoreOf(scoreboard, LOGIC_CHANNEL_ID_MAIN, "UB", ScenarioYear) = 2

(* C37: whatever the interleaving of the close presses of the OP on one   *)
(* round, the question count is taken back once for it: when the handlers  *)
(* have ended the count of the OP is the number of rounds that are not     *)
(* CLOSED.                                                                 *)
C37_OneDecrementPerRound ==
  (/\ AllDone
   /\ \A k \in ProcIds : procs[k].h = "close_round" /\ procs[k].arg = procs[1].arg)
    => QuestionsOf(scoreboard, LOGIC_CHANNEL_ID_MAIN, "UA", ScenarioYear)
         = Cardinality({i \in DOMAIN threads : StatusRead(RoundIn(threads, i)) # CLOSED})

(* ---------------- the stored counts and the rounds (C35, C36) ----------- *)
(* every round as a handler would read it; every channel's persisted data *)
RoundsRead(ths) == [i \in DOMAIN ths |-> RoundIn(ths, i)]
DataRead(sb) == [c \in ALLOWED_CHANNEL_IDS |-> Stored(sb, c)]

CountIn(byYear, u, y) == IF Has(byYear, y) THEN OrZero(byYear[y], u) ELSE 0

(* the rounds of u in channel c and year y that are OPEN or SOLVED *)
LiveAmong(ths, rounds, c, u, y) ==
  {i \in DOMAIN ths :
     /\ ths[i].channelId = c
     /\ getYearFromTimestamp(ths[i].threadTs) = y
     /\ rounds[i] # Null
     /\ rounds[i].state.op = u
     /\ rounds[i].state.status \in {OPEN, SOLVED}}

QuestionsMatch(ths, rounds, data) ==
  \A cell \in Cells :
    CountIn(data[cell[1]].questionsByYear, cell[2], cell[3])
      = Cardinality(LiveAmong(ths, rounds, cell[1], cell[2], cell[3]))

SolversRead(ths, rounds) ==
  [i \in DOMAIN ths |->
     IF rounds[i] # Null /\ rounds[i].state.status = SOLVED
     THEN InstructionIn(ths, i).solvedBy ELSE <<>>]

(* the SOLVED rounds of channel c and year y that credit u *)
CreditedAmong(ths, solvers, c, u, y) ==
  {i \in DOMAIN ths :
     /\ ths[i].channelId = c
     /\ getYearFromTimestamp(ths[i].threadTs) = y
     /\ solvers[i] = <<u>>}

ScoresMatch(ths, rounds, solvers, data) ==
  /\ \A cell \in Cells :
       CountIn(data[cell[1]].scoresByYear, cell[2], cell[3])
         = Cardinality(CreditedAmong(ths, solvers, cell[1], cell[2], cell[3]))
  /\ \A i \in DOMAIN ths :
       (rounds[i] # Null /\ rounds[i].state.status = SOLVED) => Len(solvers[i]) = 1

Noticed(ths) ==
  \E m \in DOMAIN ths[1].msgs :
    /\ Has(ths[1].msgs[m].text, "k")
    /\ ths[1].msgs[m].text.k \in {"Solved. Point goes to",
                                  "Solved via private answer. Point goes to"}

(* the calls of updateScoreboard *)
PointPhase == {"locate", "sbread", "display", "store"}

(* C38: one handler at a time, calls failing or not: whenever the solver    *)
(* holds a point the control message says SOLVED; while a confirm handler   *)
(* is adding the point the control message says SOLVED and the thread holds *)
(* no notice; and the thread holds the notice only when SOLVED was written  *)
(* and the point was added (or its store failed unnoticed).                 *)
C38_SolvedThenPointThenNotice ==
  /\ PointsOfSolver >= 1 => ScenarioStatus = SOLVED
  /\ \A k \in ProcIds :
       (procs[k].h \in ConfirmHandlers /\ procs[k].pc \in PointPhase)
         => ScenarioStatus = SOLVED /\ ~Noticed(threads)
  /\ Noticed(threads)
       => /\ ScenarioStatus = SOLVED
          /\ \/ PointsOfSolver >= 1
             \/ \E k \in ProcIds : "storeScoreboardData" \in procs[k].failed

(* the point is stored and the notice is still to be posted *)
C38_Witness ==
  \E k \in ProcIds :
    /\ procs[k].h \in ConfirmHandlers
    /\ procs[k].pc = "notice"
    /\ procs[k].failed = {}
    /\ ScenarioStatus = SOLVED
    /\ PointsOfSolver = 1
    /\ ~Noticed(threads)

(* ------------------ the control message of a thread (C39) --------------- *)
MaxReplies == 2

(* texts a reply can carry: a round in the opaque form, OPEN and SOLVED, a *)
(* legacy line, a notice of the bot, a token that is no round              *)
ReplyTexts ==
  {formatRoundState(OpenRound("UA", ScenarioTs, LOGIC_CHANNEL_ID_MAIN, <<"q1">>)),
   formatRoundState(Spread(OpenRound("UA", ScenarioTs, LOGIC_CHANNEL_ID_MAIN, <<"q1">>),
                           [status |-> SOLVED, answer |-> <<"a1">>])),
   [k |-> "line",
    toks |-> <<LineHead, Ws, Field("op", "UA"), Ws, Field("status", CLOSED), Ws,
               Field("threadTs", "1735689599.000001"), Ws,
               Field("channelId", LOGIC_CHANNEL_ID_MAIN), RBracket>>],
   [k |-> "Round closed by OP."],
   Base64([sec |-> 1, n |-> 1])}

Authors == {Bot, "UB"}

ReplyInputs == {[user |-> a, text |-> t] : a \in Authors, t \in ReplyTexts}

RECURSIVE RepliesUpTo(_)
RepliesUpTo(n) ==
  IF n = 0 THEN {<<>>}
  ELSE RepliesUpTo(n - 1)
         \cup {Append(r, m) : r \in {x \in RepliesUpTo(n - 1) : Len(x) = n - 1}, m \in ReplyInputs}

(* a thread under a riddle post of the bot *)
FindInit ==
  /\ now = 1
  /\ threads \in {[PostRoot(<<>>, "UA", LOGIC_CHANNEL_ID_MAIN, <<"q1">>, ScenarioTs)
                    EXCEPT ![1].msgs = @ \o replies] : replies \in RepliesUpTo(MaxReplies)}
  /\ scoreboard = [c \in ALLOWED_CHANNEL_IDS |-> NoScoreboard]
  /\ prompts = <<>>
  /\ modals = {}
  /\ outbox = {}
  /\ procs = <<>>
  /\ NoPins
  /\ call = [NoCall EXCEPT !.pc = "find"]

(* findRoundControlMessage(channelId, threadTs): a failing conversations.replies *)
(* or auth.test is caught and answered with null                               *)
apply_findRoundControlMessage(ok) ==
  /\ call.pc = "find"
  /\ call' = [call EXCEPT !.pc = IF ok THEN "found" ELSE "caught",
                          !.parsed = IF ok
                                     THEN findRoundControlMessage(threads, LOGIC_CHANNEL_ID_MAIN,
                                                                  ScenarioTs)
                                     ELSE Null]
  /\ UNCHANGED <<now, threads, scoreboard, prompts, modals, outbox, procs, pinned,
                 scoreboardMessageCache, BOT_USER_ID>>

FindNext == \E ok \in BOOLEAN : apply_findRoundControlMessage(ok)

FindSpec == FindInit /\ [][FindNext]_vars

(* message m of the thread is one of the bot whose text reads as a round *)
Control(msgs, m) == msgs[m].user = Bot /\ parseRoundState(msgs[m].text) # Null

(* C39: findRoundControlMessage answers with the first message of the      *)
(* thread, in the order of the replies, that the bot wrote and whose text   *)
(* reads as a round, with the place of that message and the round read; it  *)
(* answers null when the thread holds no such message and when the listing  *)
(* fails; a message of another author is never the answer.                  *)
C39_FirstBotRoundOrNull ==
  LET msgs == threads[1].msgs
      found == call.parsed
  IN /\ call.pc = "caught" => found = Null
     /\ call.pc = "found" =>
          IF \E m \in DOMAIN msgs : Control(msgs, m)
          THEN /\ found # Null
               /\ found.ts \in DOMAIN msgs
               /\ Control(msgs, found.ts)
               /\ \A j \in 1 .. found.ts - 1 : ~Control(msgs, j)
               /\ found.state = parseRoundState(msgs[found.ts].text)
               /\ msgs[found.ts].user # "UB"
          ELSE found = Null

(* a reply of a user that reads as a round was passed over for the bot's *)
C39_Witness ==
  /\ call.pc = "found"
  /\ call.parsed # Null
  /\ call.parsed.ts = 3
  /\ threads[1].msgs[2].user = "UB"
  /\ parseRoundState(threads[1].msgs[2].text) # Null
  /\ call.parsed.state.status = SOLVED

(* -------------------- the identity of the bot (C40) --------------------- *)
MaxCalls == 4

(* let BOT_USER_ID: string | null = null: the value the test !BOT_USER_ID finds *)
NoIdentity == ""

(* fault: the cached identity is not looked at *)
EnteredUncached(cached) == [pc |-> "auth.test", lookup |-> TRUE, result |-> NoIdentity]

(* ensureBotIdentity up to its await: if (!BOT_USER_ID) await auth.test() *)
Entered(cached) ==
  IF cached = NoIdentity THEN [pc |-> "auth.test", lookup |-> TRUE, result |-> NoIdentity]
  ELSE [pc |-> "returned", lookup |-> FALSE, result |-> cached]

(* the process has started and has cached no identity *)
IdInit ==
  /\ now = 1
  /\ threads = <<>>
  /\ scoreboard = [c \in ALLOWED_CHANNEL_IDS |-> NoScoreboard]
  /\ prompts = <<>>
  /\ modals = {}
  /\ outbox = {}
  /\ procs = <<>>
  /\ call = NoCall
  /\ pinned = {}
  /\ scoreboardMessageCache = EmptyObj
  /\ BOT_USER_ID = NoIdentity

(* a handler calls ensureBotIdentity() *)
call_ensureBotIdentity ==
  /\ Len(procs) < MaxCalls
  /\ procs' = Append(procs, Entered(BOT_USER_ID))
  /\ UNCHANGED BOT_USER_ID

(* auth.test() answers, or throws *)
auth_test(k, ok) ==
  /\ procs[k].pc = "auth.test"
  /\ IF ok
     THEN /\ BOT_USER_ID' = Bot
          /\ procs' = [procs EXCEPT ![k].pc = "returned", ![k].result = Bot]
     ELSE /\ procs' = [procs EXCEPT ![k].pc = "threw"]
          /\ UNCHANGED BOT_USER_ID

IdNext ==
  \/ call_ensureBotIdentity
  \/ \E k \in ProcIds, ok \in BOOLEAN : auth_test(k, ok)

IdSpec ==
  IdInit /\ [][IdNext /\ UNCHANGED <<now, threads, scoreboard, prompts, modals, outbox, call,
                                     pinned, scoreboardMessageCache>>]_vars

(* the calls whose lookup answered *)
Lookups == {k \in ProcIds : procs[k].lookup /\ procs[k].pc = "returned"}

(* C40, as stated: the identity is looked up once in the life of the        *)
(* process, also when handlers call ensureBotIdentity together: at most one *)
(* call gets an answer from auth.test.                                      *)
C40_OneLookup == Cardinality(Lookups) <= 1

(* C40, as the code has it: a call made while no identity is cached looks   *)
(* it up, and its answer is cached and returned; a call made once an        *)
(* identity is cached returns it without a lookup; a cached identity never  *)
(* changes; every call that returns returns the same identity.              *)
C40_CachedOnceSet ==
  [][/\ BOT_USER_ID # NoIdentity => BOT_USER_ID' = BOT_USER_ID
     /\ Len(procs') > Len(procs) =>
          LET new == procs'[Len(procs')] IN
          IF BOT_USER_ID = NoIdentity
          THEN new.pc = "auth.test" /\ new.lookup
          ELSE new.pc = "returned" /\ ~new.lookup /\ new.result = BOT_USER_ID
     /\ \A k \in ProcIds :
          (procs[k].pc = "auth.test" /\ procs'[k].pc = "returned")
            => BOT_USER_ID' = procs'[k].result /\ procs'[k].result # NoIdentity
     /\ \A j, k \in DOMAIN procs' :
          (procs'[j].pc = "returned" /\ procs'[k].pc = "returned")
            => procs'[j].result = procs'[k].result
    ]_vars

(* two calls made together both looked the identity up, a later call did not *)
C40_Witness ==
  /\ Len(procs) = 3
  /\ \A k \in ProcIds : procs[k].pc = "returned" /\ procs[k].result = BOT_USER_ID
  /\ Lookups = {1, 2}
====
